---------------------------- MODULE Spec2Model ----------------------------
(***************************************************************************)
(* State-machine model of the download server of youtube-audio-downloader  *)
(* (routes: POST /api/download, GET /api/files/:filename, GET /api/search, *)
(* and the album resolver findYouTubeForTrack with its lookup cache).      *)
(*                                                                         *)
(* Strings are sequences of one-character strings, so that the string      *)
(* operations of the code (includes, split, trim, replace, startsWith,     *)
(* substring, encodeURIComponent) are computed and not assumed.  The two   *)
(* dash characters U+2013 and U+2014 are written "EN" and "EM", the sharp  *)
(* s U+00DF is written "SZ".  null,                                        *)
(* undefined and "" are all falsy in the places the code tests them and    *)
(* are all written << >>.                                                  *)
(*                                                                         *)
(* Node runs one callback at a time: every action below is one run of      *)
(* synchronous code between two awaits (or event-emitter callbacks).       *)
(***************************************************************************)
EXTENDS Integers, Sequences, FiniteSets, TLC

VARIABLES
    files,      \* download directory: file name -> content
    dl,         \* POST /api/download: request slot -> handler state
    served,     \* number of download requests accepted so far
    fileReq,    \* GET /api/files/:filename: req.params.filename of the last request
    fileRes,    \* and the response to it
    apiKey,     \* YOUTUBE_API_KEY is set
    search,     \* GET /api/search: request slot -> handler state
    db,         \* the database handle is configured
    cache,      \* table youtube_track_cache: id -> row
    calls,      \* findYouTubeForTrack: caller -> state of its call
    upstream,   \* upstream resolutions findYouTubeForTrack has started
    zeros,      \* calls of findYouTubeForTrack that ended with zero candidates
    album,      \* GET /api/albums/:collectionId: the handler's state and response
    pure,       \* the last call of a pure helper: its name, arguments, result
    yt,         \* searchWithYtDlp: the subprocess, its output and the promise
    retag       \* POST /api/library/retag-all: the handler's state and stream

dlVars == <<files, dl, served>>
fileVars == <<fileReq, fileRes>>
searchVars == <<apiKey, search>>
cacheVars == <<db, cache, calls, upstream, zeros, album>>
pureVars == <<pure>>
sideVars == <<yt, retag>>
vars == <<files, dl, served, fileReq, fileRes, apiKey, search, db, cache, calls,
          upstream, zeros, album, pure, yt, retag>>

-----------------------------------------------------------------------------
(* Bounds of the model *)

\* stdout lines one acquisition run (all its subprocesses together) prints
MaxLines == 2
\* the same in LiveSpec
LiveMaxLines == 1
\* download requests accepted over the life of the server in SpecConc
MaxRequests == 2
\* characters after the padding of a file name given to sanitizeFilename
MaxTailLen == 3
\* characters of an artist name given to getCacheKey
MaxKeyLen == 3
\* words (and gaps) of a string given to stringSimilarity
MaxWords == 2
\* tracks in the catalog's answer to searchITunesSongMetadata
MaxCandidates == 2

-----------------------------------------------------------------------------
(* JavaScript string primitives over character sequences *)

Min(a, b) == IF a < b THEN a ELSE b

WS == {" ", "\t"}

UpperCase == <<"A","B","C","D","E","F","G","H","I","J","K","L","M",
               "N","O","P","Q","R","S","T","U","V","W","X","Y","Z">>
LowerCase == <<"a","b","c","d","e","f","g","h","i","j","k","l","m",
               "n","o","p","q","r","s","t","u","v","w","x","y","z">>

ToLowerChar(c) ==
    IF \E i \in 1..26 : UpperCase[i] = c
    THEN LowerCase[CHOOSE i \in 1..26 : UpperCase[i] = c]
    ELSE c

ToLowerCase(s) == [i \in 1..Len(s) |-> ToLowerChar(s[i])]

\* the upper case of one character: of the sharp s it is "SS"
ToUpperChar(c) ==
    IF c = "SZ" THEN <<"S", "S">>
    ELSE IF \E i \in 1..26 : LowerCase[i] = c
    THEN <<UpperCase[CHOOSE i \in 1..26 : LowerCase[i] = c]>>
    ELSE <<c>>

ToUpperCase(s) ==
    LET up == [i \in 1..Len(s) |-> ToUpperChar(s[i])]
        \* the characters of up[1..i] together
        before(i) == IF i = 0 THEN 0 ELSE
                     Cardinality({<<j, k>> \in (1..i) \X (1..2) : k <= Len(up[j])})
    IN [n \in 1..before(Len(s)) |->
          LET i == CHOOSE j \in 1..Len(s) : before(j - 1) < n /\ n <= before(j)
          IN up[i][n - before(i - 1)]]

\* s.startsWith(p, i-1)
StartsWithAt(s, p, i) ==
    /\ i >= 1
    /\ i + Len(p) - 1 <= Len(s)
    /\ \A k \in 1..Len(p) : s[i + k - 1] = p[k]

StartsWith(s, p) == StartsWithAt(s, p, 1)

EndsWith(s, p) == Len(p) <= Len(s) /\ StartsWithAt(s, p, Len(s) - Len(p) + 1)

\* s.indexOf(p) + 1 for a non-empty p (0: not found)
IndexOf(s, p) ==
    IF \E i \in 1..Len(s) : StartsWithAt(s, p, i)
    THEN CHOOSE i \in 1..Len(s) :
            /\ StartsWithAt(s, p, i)
            /\ \A j \in 1..(i - 1) : ~StartsWithAt(s, p, j)
    ELSE 0

Includes(s, p) == IndexOf(s, p) # 0

\* the index of the first character at or after i that is not white space
SkipWs(s, i) ==
    IF \E j \in i..Len(s) : s[j] \notin WS
    THEN CHOOSE j \in i..Len(s) :
            s[j] \notin WS /\ \A k \in i..(j - 1) : s[k] \in WS
    ELSE Len(s) + 1

Trim(s) ==
    IF \A i \in 1..Len(s) : s[i] \in WS
    THEN << >>
    ELSE LET a == SkipWs(s, 1)
             b == CHOOSE j \in 1..Len(s) :
                     s[j] \notin WS /\ \A k \in (j + 1)..Len(s) : s[k] \in WS
         IN SubSeq(s, a, b)

\* all sequences over cs of length at most n
StringsUpTo(cs, n) == UNION { [1..k -> cs] : k \in 0..n }

\* a || b on strings
OrElse(a, b) == IF a # << >> THEN a ELSE b

DigitChar == <<"0","1","2","3","4","5","6","7","8","9">>

\* The recursive helpers are functions: a function's argument is a value when
\* its body is evaluated.
Str == Seq(STRING)

DecimalDigits[n \in Nat] ==
    IF n < 10 THEN <<DigitChar[n + 1]>>
    ELSE DecimalDigits[n \div 10] \o <<DigitChar[(n % 10) + 1]>>

\* `${n}`
NumberToString(n) == DecimalDigits[n]

-----------------------------------------------------------------------------
(* stringSimilarity; a number is the fraction <<numerator, denominator>> *)

Fraction(n, d) == <<n, d>>

\* s.split(/\s+/) of a trimmed, non-empty string
SplitWs[s \in Str] ==
    IF \A i \in 1..Len(s) : s[i] \notin WS THEN <<s>>
    ELSE LET i == CHOOSE j \in 1..Len(s) :
                     s[j] \in WS /\ \A k \in 1..(j - 1) : s[k] \notin WS
         IN <<SubSeq(s, 1, i - 1)>> \o SplitWs[SubSeq(s, SkipWs(s, i), Len(s))]

\* s.includes(p), also for the empty p
IncludesStr(s, p) == p = << >> \/ Includes(s, p)

\* [mutation] Math.min in the place of Math.max
MaxAsMin(a, b) == IF a < b THEN a ELSE b

Max(a, b) == IF a > b THEN a ELSE b

\* the word-based matching of two lists of words
WordMatch[words1 \in Seq(Str), words2 \in Seq(Str)] ==
    IF Len(words1) = 0 \/ Len(words2) = 0 THEN Fraction(0, 1)
    ELSE Fraction(Cardinality({i \in 1..Len(words1) :
                     \E j \in 1..Len(words2) :
                         \/ IncludesStr(words2[j], words1[i])
                         \/ IncludesStr(words1[i], words2[j])}),
                  Max(Len(words1), Len(words2)))

\* stringSimilarity after const s1 = ..., s2 = ...
SimilarityOf[s1 \in Str, s2 \in Str] ==
    IF s1 = s2 THEN Fraction(1, 1)
    ELSE IF Len(s1) = 0 \/ Len(s2) = 0 THEN Fraction(0, 1)
    ELSE IF IncludesStr(s1, s2) \/ IncludesStr(s2, s1) THEN Fraction(4, 5)
    ELSE WordMatch[SelectSeq(SplitWs[s1], LAMBDA w : Len(w) > 2),
                   SelectSeq(SplitWs[s2], LAMBDA w : Len(w) > 2)]

stringSimilarity(str1, str2) ==
    SimilarityOf[Trim(ToLowerCase(str1)), Trim(ToLowerCase(str2))]

-----------------------------------------------------------------------------
(* searchITunesSongMetadata: the choice among the catalog's tracks *)

\* a < b on fractions
Less(a, b) == a[1] * b[2] < b[1] * a[2]

\* cleanSongTitle on titles without brackets, '#', 'ft.', 'VEVO' and
\* '- Topic': what is left of it is .replace(/\s+/g, " ").trim()
cleanSongTitle(title) ==
    LET marked == [i \in 1..Len(title) |->
                     IF title[i] \notin WS THEN title[i]
                     ELSE IF i > 1 /\ title[i - 1] \in WS THEN "" ELSE " "]
    IN Trim(SelectSeq(marked, LAMBDA c : c # ""))

\* const separators = [" - ", " EN ", " EM "] in searchITunesSongMetadata
catalogSeparators == << <<" ","-"," ">>, <<" ","EN"," ">>, <<" ","EM"," ">> >>

\* searchArtist and searchSong
SearchTerms(artist, song) ==
    LET cleanedSong == cleanSongTitle(song)
        cleanedArtist == Trim(artist)
        hit == {k \in 1..Len(catalogSeparators) :
                   Includes(cleanedSong, catalogSeparators[k])}
    IN IF hit = {}
       THEN [searchArtist |-> cleanedArtist, searchSong |-> cleanedSong]
       ELSE LET sep == catalogSeparators[CHOOSE k \in hit : \A j \in hit : k <= j]
                at == IndexOf(cleanedSong, sep)
            IN [searchArtist |->
                   OrElse(cleanedArtist, Trim(SubSeq(cleanedSong, 1, at - 1))),
                searchSong |->
                   Trim(SubSeq(cleanedSong, at + Len(sep), Len(cleanedSong)))]

\* (artistScore * 0.4) + (songScore * 0.6)
WeightedSum[artistScore \in Nat \X Nat, songScore \in Nat \X Nat] ==
    Fraction(2 * artistScore[1] * songScore[2] + 3 * songScore[1] * artistScore[2],
             5 * artistScore[2] * songScore[2])

TotalScore(terms, track) ==
    WeightedSum[stringSimilarity(terms.searchArtist, track.artistName),
                stringSimilarity(terms.searchSong, track.trackName)]

\* [mutation] if (totalScore >= bestScore): the last of the best tracks wins
BetterOrEqual(totalScore, bestScore) == ~Less(totalScore, bestScore)

\* if (totalScore > bestScore)
Better(totalScore, bestScore) == Less(bestScore, totalScore)

CatalogTrack == [artistName : Str, trackName : Str, collectionName : Str]
BestSoFar == [bestTrack : Nat, bestScore : Nat \X Nat]
Terms == [searchArtist : Str, searchSong : Str]

\* one turn of the loop, on the n-th track
LoopStep[before \in BestSoFar, totalScore \in Nat \X Nat, n \in Nat] ==
    IF Better(totalScore, before.bestScore)
    THEN [bestTrack |-> n, bestScore |-> totalScore]
    ELSE before

\* bestTrack (0: null) and bestScore after the first n tracks of the loop
BestAfter[n \in Nat, terms \in Terms, results \in Seq(CatalogTrack)] ==
    IF n = 0 THEN [bestTrack |-> 0, bestScore |-> Fraction(0, 1)]
    ELSE LoopStep[BestAfter[n - 1, terms, results],
                  TotalScore(terms, results[n]), n]

emptyResult ==
    [found |-> FALSE, trackName |-> << >>, artistName |-> << >>, albumName |-> << >>]

\* what is returned after the loop
MatchResult[best \in BestSoFar, results \in Seq(CatalogTrack)] ==
    IF best.bestTrack = 0 \/ Less(best.bestScore, Fraction(3, 10))
    THEN emptyResult
    ELSE [found |-> TRUE,
          trackName |-> results[best.bestTrack].trackName,
          artistName |-> results[best.bestTrack].artistName,
          albumName |-> results[best.bestTrack].collectionName]

\* response: response.ok and the tracks of data.results
searchITunesSongMetadata(artist, song, response) ==
    IF ~response.ok THEN emptyResult
    ELSE IF Len(response.results) = 0 THEN emptyResult
    ELSE MatchResult[BestAfter[Len(response.results), SearchTerms(artist, song),
                               response.results],
                     response.results]

-----------------------------------------------------------------------------
(* searchITunesAlbums: the merge of the three catalog searches *)

\* limit=15 and limit=25 of the album and the song search
AlbumSearchLimit == 15
SongSearchLimit == 25

\* the test that lets an album without a word of the query in
OtherAlbumsCap == 30

\* the albums of one artist's discography
MaxDiscography == 3

Album(collectionId, collectionName) ==
    [collectionId |-> collectionId, collectionName |-> collectionName]

AlbumRecords == [collectionId : Nat, collectionName : Str]

\* an entry with the marks of the loops: it is kept, and its score in the sort
MarkedAlbums == [item : AlbumRecords, keep : BOOLEAN, score : Nat]

\* the entries of a list whose collectionId is not in seen
\* (collectionId 0 stands for a missing one)
ItemsOf[marked \in Seq(MarkedAlbums)] == [i \in 1..Len(marked) |-> marked[i].item]

Unseen[items \in Seq(AlbumRecords), seen \in SUBSET Nat, skipMissing \in BOOLEAN] ==
    ItemsOf[SelectSeq([i \in 1..Len(items) |->
                         [item |-> items[i], score |-> 0,
                          keep |-> /\ items[i].collectionId \notin seen
                                   /\ ~(skipMissing /\ items[i].collectionId = 0)]],
                      LAMBDA x : x.keep)]

\* the first entry of every collectionId
FirstOfEach[items \in Seq(AlbumRecords)] ==
    ItemsOf[SelectSeq([i \in 1..Len(items) |->
                         [item |-> items[i], score |-> 0,
                          keep |-> \A j \in 1..(i - 1) :
                                     items[j].collectionId # items[i].collectionId]],
                      LAMBDA x : x.keep)]

IdsOf(items) == {items[i].collectionId : i \in 1..Len(items)}

\* Array.from(new Set(ids)): the ids in the order of their first occurrence
DistinctInOrder(ids) ==
    LET marked == [i \in 1..Len(ids) |->
                     [id |-> ids[i],
                      first |-> \A j \in 1..(i - 1) : ids[j] # ids[i]]]
        kept == SelectSeq(marked, LAMBDA x : x.first)
    IN [i \in 1..Len(kept) |-> kept[i].id]

\* list.slice(0, n)
Slice(list, n) == SubSeq(list, 1, Min(n, Len(list)))

\* query.toLowerCase().split(/\s+/).filter(w => w.length > 1)
QueryWords(query) == SelectSeq(SplitWs[ToLowerCase(query)], LAMBDA w : Len(w) > 1)

commonArtistWords ==
    { <<"y","o","u","n","g">>, <<"t","h","u","g">>, <<"t","h","e">>,
      <<"l","i","l">>, <<"b","i","g">>, <<"d","j">>, <<"a","n","d">>,
      <<"f","e","a","t">>, <<"f","e","a","t","u","r","i","n","g">> }

\* the score of the comparator of the final sort
RECURSIVE SortScore(_, _)
SortScore(name, words) ==
    IF words = << >> THEN 0
    ELSE (IF Includes(ToLowerCase(name), Head(words))
          THEN (IF Head(words) \in commonArtistWords THEN 1 ELSE 3)
          ELSE 0) + SortScore(name, Tail(words))

\* albumResults.sort((a, b) => bScore - aScore): higher scores first, equal
\* scores in their old order
FromScore[scored \in Seq(MarkedAlbums), k \in Nat] ==
    SelectSeq(scored, LAMBDA a : a.score = k)
        \o (IF k = 0 THEN << >> ELSE FromScore[scored, k - 1])

SortedByScore[list \in Seq(AlbumRecords), words \in Seq(Str)] ==
    ItemsOf[FromScore[[i \in 1..Len(list) |->
                         [item |-> list[i], keep |-> TRUE,
                          score |-> SortScore(list[i].collectionName, words)]],
                      3 * Len(words)]]

DiscographyState == [seen : SUBSET Nat, priority : Seq(AlbumRecords),
                     other : Seq(AlbumRecords), merged : Nat]

\* one album of a discography: passed over when seen, taken as priority when
\* its name has a word of the query, else taken while there is room
DiscographyStep[before \in DiscographyState, entry \in AlbumRecords, query \in Str] ==
    LET albumNameLower == ToLowerCase(entry.collectionName)
        queryLower == ToLowerCase(query)
        words == QueryWords(query)
        hasWordMatch == \E i \in 1..Len(words) : Includes(albumNameLower, words[i])
        isFullMatch == \/ IncludesStr(albumNameLower, queryLower)
                       \/ IncludesStr(queryLower, albumNameLower)
    IN IF entry.collectionId \in before.seen THEN before
       ELSE IF isFullMatch \/ hasWordMatch
       THEN [before EXCEPT !.seen = @ \cup {entry.collectionId},
                           !.priority = Append(@, entry)]
       ELSE IF before.merged + Len(before.priority) + Len(before.other)
                 < OtherAlbumsCap
       THEN [before EXCEPT !.seen = @ \cup {entry.collectionId},
                           !.other = Append(@, entry)]
       ELSE before

\* the loop over the discographies
DiscographyAfter[n \in Nat, albums \in Seq(AlbumRecords), start \in DiscographyState, query \in Str] ==
    IF n = 0 THEN start
    ELSE DiscographyStep[DiscographyAfter[n - 1, albums, start, query],
                         albums[n], query]

RECURSIVE Concat(_)
Concat(lists) == IF lists = << >> THEN << >> ELSE Head(lists) \o Concat(Tail(lists))

\* the entries of the album search and of the song search, the second as
\* the pseudo-albums built from the songs
WithSongs[fromAlbums \in Seq(AlbumRecords), songs \in Seq(AlbumRecords)] ==
    fromAlbums \o Unseen[FirstOfEach[songs], IdsOf(fromAlbums), TRUE]

FirstTwoSearches[albums \in Seq(AlbumRecords), songs \in Seq(AlbumRecords)] ==
    WithSongs[FirstOfEach[albums], songs]

\* albumResults after the discographies and the sort
WithDiscographies[albumResults \in Seq(AlbumRecords), flat \in Seq(AlbumRecords), query \in Str] ==
    LET start == [seen |-> IdsOf(albumResults), priority |-> << >>,
                  other |-> << >>, merged |-> Len(albumResults)]
    IN SortedByScore[
          Concat(<<albumResults,
                   DiscographyAfter[Len(flat), flat, start, query].priority,
                   DiscographyAfter[Len(flat), flat, start, query].other>>),
          QueryWords(query)]

\* searchITunesAlbums(query).  A response is [ok, results]; `failed` says that
\* one of the three fetches rejected or a body was not JSON; discographies is
\* what the lookup of each artist id answers
searchITunesAlbums(query, failed, albumResponse, songResponse, artistResponse, discographies) ==
    LET albums == IF albumResponse.ok THEN albumResponse.results ELSE << >>
        songs == IF songResponse.ok THEN songResponse.results ELSE << >>
        artistIdsFromSongs ==
            DistinctInOrder(SelectSeq([i \in 1..Len(songs) |-> songs[i].artistId],
                                      LAMBDA id : id # 0))
        artists == IF artistResponse.ok THEN artistResponse.results ELSE << >>
        allArtistIds ==
            DistinctInOrder(Slice(artists, 2) \o Slice(artistIdsFromSongs, 3))
        fetched == Slice(allArtistIds, 4)
        flat == Concat([i \in 1..Len(fetched) |-> discographies[fetched[i]]])
    IN IF failed THEN << >>
       ELSE WithDiscographies[
               FirstTwoSearches[albums,
                  [i \in 1..Len(songs) |-> Album(songs[i].collectionId,
                                                 songs[i].collectionName)]],
               flat, query]

-----------------------------------------------------------------------------
(* Pure functions of the download pipeline *)

DASHES == {"-", "EN", "EM"}

\* parseMetadataFromTitle: the separators tried in order
separators == << <<" ","-"," ">>, <<" ","EN"," ">>, <<" ","EM"," ">>,
                 <<" ","|"," ">>, <<" ","b","y"," ">> >>

\* s.replace(/<suffix>$/i, "")
StripSuffixCI(s, suffix) ==
    IF EndsWith(ToLowerCase(s), ToLowerCase(suffix))
    THEN SubSeq(s, 1, Len(s) - Len(suffix))
    ELSE s

\* parseMetadataFromTitle(title, channelTitle).artist
ParsedArtist(title, channelTitle) ==
    LET hit == {k \in 1..Len(separators) : Includes(title, separators[k])}
        fromTitle ==
            IF hit = {} THEN << >>
            ELSE LET k == CHOOSE x \in hit : \A y \in hit : x <= y
                 IN Trim(SubSeq(title, 1, IndexOf(title, separators[k]) - 1))
        cleanChannel ==
            Trim(StripSuffixCI(StripSuffixCI(StripSuffixCI(channelTitle,
                    <<"V","E","V","O">>),
                    <<"O","f","f","i","c","i","a","l">>),
                    <<"M","u","s","i","c">>))
    IN IF fromTitle = << >> /\ channelTitle # << >> THEN cleanChannel ELSE fromTitle

\* parseMetadataFromTitle: the chain of if/else if over titleLower, in order
GenreWords ==
    <<
       [words |-> {<<"h","i","p"," ","h","o","p">>, <<"r","a","p">>},
        genre |-> <<"H","i","p"," ","H","o","p">>],
       [words |-> {<<"r","o","c","k">>},
        genre |-> <<"R","o","c","k">>],
       [words |-> {<<"p","o","p">>},
        genre |-> <<"P","o","p">>],
       [words |-> {<<"j","a","z","z">>},
        genre |-> <<"J","a","z","z">>],
       [words |-> {<<"c","l","a","s","s","i","c","a","l">>},
        genre |-> <<"C","l","a","s","s","i","c","a","l">>],
       [words |-> {<<"e","l","e","c","t","r","o","n","i","c">>, <<"e","d","m">>},
        genre |-> <<"E","l","e","c","t","r","o","n","i","c">>],
       [words |-> {<<"r","&","b">>, <<"s","o","u","l">>},
        genre |-> <<"R","&","B","/","S","o","u","l">>],
       [words |-> {<<"c","o","u","n","t","r","y">>},
        genre |-> <<"C","o","u","n","t","r","y">>],
       [words |-> {<<"l","a","t","i","n">>, <<"r","e","g","g","a","e","t","o","n">>},
        genre |-> <<"L","a","t","i","n">>],
       [words |-> {<<"i","n","d","i","e">>},
        genre |-> <<"I","n","d","i","e">>] >>

\* parseMetadataFromTitle(title, channelTitle).genre
ParsedGenre(title) ==
    LET hit == {k \in 1..Len(GenreWords) :
                   \E w \in GenreWords[k].words : Includes(ToLowerCase(title), w)}
    IN IF hit = {} THEN << >>
       ELSE GenreWords[CHOOSE k \in hit : \A j \in hit : k <= j].genre

\* The album patterns, for titles without quotation marks (the optional
\* ["']? of the patterns then matches nothing).
\* /\(from ([^)]+)\)/i and /\[from ([^\]]+)\]/i: the leftmost "(from " that is
\* followed by one character or more and then the closing bracket
FromInBrackets(title, open, close) ==
    LET prefix == <<open, "f", "r", "o", "m", " ">>
        CloseAfter(i) == {j \in (i + Len(prefix))..Len(title) : title[j] = close}
        FirstClose(i) == CHOOSE j \in CloseAfter(i) : \A x \in CloseAfter(i) : j <= x
        starts == {i \in 1..Len(title) :
                     /\ StartsWithAt(ToLowerCase(title), prefix, i)
                     /\ CloseAfter(i) # {}
                     /\ FirstClose(i) > i + Len(prefix)}
    IN IF starts = {} THEN [matched |-> FALSE, group |-> << >>]
       ELSE LET i == CHOOSE x \in starts : \A y \in starts : x <= y
            IN [matched |-> TRUE,
                group |-> SubSeq(title, i + Len(prefix), FirstClose(i) - 1)]

\* /album[:\s]+([^"']+)/i: "album", a run of colons and white space, then the
\* rest of the title; a run that reaches the end gives its last character back
AfterAlbum(title) ==
    LET word == <<"a", "l", "b", "u", "m">>
        Sep(c) == c = ":" \/ c \in WS
        RunEnd(i) ==
            LET stops == {j \in (i + Len(word))..Len(title) : ~Sep(title[j])}
            IN IF stops = {} THEN Len(title) + 1
               ELSE CHOOSE j \in stops : \A x \in stops : j <= x
        starts == {i \in 1..Len(title) :
                     /\ StartsWithAt(ToLowerCase(title), word, i)
                     /\ RunEnd(i) > i + Len(word)
                     /\ RunEnd(i) <= Len(title) \/ RunEnd(i) > i + Len(word) + 1}
    IN IF starts = {} THEN [matched |-> FALSE, group |-> << >>]
       ELSE LET i == CHOOSE x \in starts : \A y \in starts : x <= y
            IN [matched |-> TRUE,
                group |-> IF RunEnd(i) <= Len(title)
                          THEN SubSeq(title, RunEnd(i), Len(title))
                          ELSE <<title[Len(title)]>>]

\* parseMetadataFromTitle(title, channelTitle).album: the first pattern that
\* matches, its group trimmed
ParsedAlbum(title) ==
    LET round == FromInBrackets(title, "(", ")")
        square == FromInBrackets(title, "[", "]")
        colon == AfterAlbum(title)
    IN IF round.matched THEN Trim(round.group)
       ELSE IF square.matched THEN Trim(square.group)
       ELSE IF colon.matched THEN Trim(colon.group)
       ELSE << >>

\* Characters with a meaning of their own in a regular expression.  The
\* titles of this model use "(" , ")" and "*" only; every other character of
\* an artist name is matched literally.
ParenDepthOk[p \in Str, depth \in Nat] ==
    IF p = << >> THEN depth = 0
    ELSE IF Head(p) = "(" THEN ParenDepthOk[Tail(p), depth + 1]
    ELSE IF Head(p) = ")" THEN depth > 0 /\ ParenDepthOk[Tail(p), depth - 1]
    ELSE ParenDepthOk[Tail(p), depth]

\* new RegExp(`^${artist}\\s*[-EN EM]\\s*`, 'i') throws a SyntaxError
RegExpThrows(artist) ==
    \/ ~ParenDepthOk[artist, 0]
    \/ artist # << >> /\ artist[1] \in {"*", "+", "?"}

\* title.replace(new RegExp(`^${artist}\\s*[-EN EM]\\s*`, 'i'), '') for an artist
\* without special characters
StripArtistPrefix(title, artist) ==
    IF ~StartsWith(ToLowerCase(title), ToLowerCase(artist)) THEN title
    ELSE LET d == SkipWs(title, Len(artist) + 1)
         IN IF d <= Len(title) /\ title[d] \in DASHES
            THEN SubSeq(title, SkipWs(title, d + 1), Len(title))
            ELSE title

ForbiddenChars == {"<", ">", ":", "\"", "/", "\\", "|", "?", "*"}

\* s.replace(/\s+/g, "_")
\* (the first character of a run of white space becomes "_", the others go)
CollapseWs[s \in Str] ==
    LET marked == [i \in 1..Len(s) |->
                     IF s[i] \notin WS THEN s[i]
                     ELSE IF i > 1 /\ s[i - 1] \in WS THEN "" ELSE "_"]
    IN SelectSeq(marked, LAMBDA c : c # "")

\* [mutation] sanitizeFilename without .substring(0, 100)
SanitizeUntruncated(filename) ==
    CollapseWs[SelectSeq(filename, LAMBDA c : c \notin ForbiddenChars)]

MaxFilenameLen == 100

sanitizeFilename(filename) ==
    LET stripped == SelectSeq(filename, LAMBDA c : c \notin ForbiddenChars)
        joined == CollapseWs[stripped]
    IN SubSeq(joined, 1, Min(MaxFilenameLen, Len(joined)))

MP3 == <<".","m","p","3">>

\* basename of tempPath = path.join(DOWNLOAD_DIR, `${videoId}_temp.mp3`)
TempName(videoId) == videoId \o <<"_","t","e","m","p">> \o MP3

\* encodeURIComponent, character by character: A-Z a-z 0-9 - _ . ! ~ * ' ( )
\* are kept, everything else becomes the %XX of its UTF-8 bytes
EncodeChar(c) ==
    CASE c = "&"  -> <<"%","2","6">>
      [] c = " "  -> <<"%","2","0">>
      [] c = "%"  -> <<"%","2","5">>
      [] c = "/"  -> <<"%","2","F">>
      [] c = "EN" -> <<"%","E","2","%","8","0","%","9","3">>
      [] c = "EM" -> <<"%","E","2","%","8","0","%","9","4">>
      [] OTHER    -> <<c>>

EncodeAll[s \in Str] ==
    IF s = << >> THEN << >> ELSE EncodeChar(Head(s)) \o EncodeAll[Tail(s)]

encodeURIComponent(s) == EncodeAll[s]

\* decodeURIComponent on the escapes EncodeChar produces
DecodeAll[s \in Str] ==
    IF s = << >> THEN << >>
    ELSE IF StartsWith(s, <<"%","E","2","%","8","0","%","9","3">>)
         THEN <<"EN">> \o DecodeAll[SubSeq(s, 10, Len(s))]
    ELSE IF StartsWith(s, <<"%","E","2","%","8","0","%","9","4">>)
         THEN <<"EM">> \o DecodeAll[SubSeq(s, 10, Len(s))]
    ELSE IF StartsWith(s, <<"%","2","6">>)
         THEN <<"&">> \o DecodeAll[SubSeq(s, 4, Len(s))]
    ELSE IF StartsWith(s, <<"%","2","0">>)
         THEN <<" ">> \o DecodeAll[SubSeq(s, 4, Len(s))]
    ELSE IF StartsWith(s, <<"%","2","5">>)
         THEN <<"%">> \o DecodeAll[SubSeq(s, 4, Len(s))]
    ELSE IF StartsWith(s, <<"%","2","F">>)
         THEN <<"/">> \o DecodeAll[SubSeq(s, 4, Len(s))]
    ELSE <<Head(s)>> \o DecodeAll[Tail(s)]

decodeURIComponent(s) == DecodeAll[s]

API_FILES == <<"/","a","p","i","/","f","i","l","e","s","/">>

\* [mutation] the loop is skipped: the final path is used as it is
ResolveWithoutLoop(dir, finalFilename, tempName) == finalFilename \o MP3

\* the while loop of the rename: first of <base>.mp3, <base>_1.mp3, ... that
\* does not exist or is the temp file itself
ResolveActualPath(dir, finalFilename, tempName) ==
    LET Suffixed(counter) == finalFilename \o <<"_">> \o NumberToString(counter) \o MP3
        Taken(name) == name \in DOMAIN dir /\ name # tempName
        \* the loop ends at the first counter whose name is not taken; at
        \* most as many names are taken as there are files
        counters == 1..(Cardinality(DOMAIN dir) + 1)
    IN IF ~Taken(finalFilename \o MP3) THEN finalFilename \o MP3
       ELSE Suffixed(CHOOSE c \in counters :
                        ~Taken(Suffixed(c)) /\ \A b \in 1..(c - 1) : Taken(Suffixed(b)))

-----------------------------------------------------------------------------
(* POST /api/download *)

Slots == {1, 2}

\* [mutation] the profiles with web tried first
PlayerClientsWebFirst == <<"web", "android", "android_vr", "mweb", "ios">>

PLAYER_CLIENTS == <<"android", "android_vr", "web", "mweb", "ios">>

NoUrl == << >>

Event(status, progress, downloadUrl) ==
    [status |-> status, progress |-> progress, downloadUrl |-> downloadUrl]

\* the catch block of the handler
ErrorEvent == Event("error", 0, NoUrl)

CompleteEvent(actualName) ==
    Event("complete", 100, API_FILES \o encodeURIComponent(actualName))

\* [mutation] the conversion is announced as a `processing` event
ConvertingEventAsProcessing == Event("processing", 85, NoUrl)

\* onProgress(85, "Converting to MP3...") through the handler's callback
ConvertingEvent == Event("downloading", 85, NoUrl)

\* 20 + percent * 0.6, clamped at 80 (the percentages of the model are
\* multiples of 5, so the product is an integer)
ScaledProgress(percent) == Min(80, 20 + (percent * 6) \div 10)

\* emptyResult of searchITunesSongMetadata; also "no knownMetadata"
NoMetadata ==
    [found |-> FALSE, trackName |-> << >>, artistName |-> << >>,
     albumName |-> << >>, genre |-> << >>, albumArt |-> << >>]

NoFinalMetadata == [artist |-> << >>, album |-> << >>, genre |-> << >>]

IdleRequest ==
    [pc |-> "idle", videoId |-> << >>, title |-> << >>, channelTitle |-> << >>,
     thumbnail |-> << >>, knownMetadata |-> NoMetadata,
     parsedArtist |-> << >>, parsedAlbum |-> << >>, parsedGenre |-> << >>,
     songTitle |-> << >>, finalMetadata |-> NoFinalMetadata,
     \* searchITunesSongMetadata has been called for this request
     lookedUp |-> FALSE,
     \* how the last fetchImageAsBuffer of embedID3Tags has ended
     art |-> "none",
     iTunesMetadata |-> NoMetadata, attempt |-> 0, nlines |-> 0,
     lastError |-> "none", acquired |-> FALSE, stream |-> << >>, ended |-> FALSE,
     httpStatus |-> 0,
     \* downloadAudio: the player clients of the subprocesses spawned so far,
     \* how many of them have not exited, whether it has returned, and the
     \* error it has thrown
     spawned |-> << >>, alive |-> 0, returned |-> FALSE, thrown |-> "none"]

\* what req.body can carry and what the catalog and yt-dlp can answer
VideoIds == { <<"v">>, <<"w">> }
Titles == { << >>,
            <<"a"," ","-"," ","&">>,
            <<"("," ","-"," ","b">>,
            <<"v","_","t","e","m","p">> }
ChannelTitles == { << >>, <<"c","V","E","V","O">> }
KnownMetadata ==
    { NoMetadata,
      [found |-> TRUE, trackName |-> <<"t">>, artistName |-> <<"k">>,
       albumName |-> <<"l">>, genre |-> <<"g">>, albumArt |-> <<"u">>] }
Thumbnails == { << >> }
CatalogAnswers ==
    { NoMetadata,
      [found |-> TRUE, trackName |-> <<"s">>, artistName |-> <<"i">>,
       albumName |-> <<"c">>, genre |-> <<"j">>, albumArt |-> <<"u">>] }
NoPercent == 0 - 1
StdoutLines ==
    [percent : {0, 50, 150}, extractAudio : {FALSE}]
        \cup {[percent |-> NoPercent, extractAudio |-> TRUE]}


\* req.body of one request (a missing videoId is << >>)
Bodies ==
    [videoId : {<< >>, <<"v">>}, title : Titles, channelTitle : ChannelTitles,
     thumbnail : Thumbnails, knownMetadata : KnownMetadata]
\* the bodies of SpecConc: two videos with one title, and a video whose title
\* is the name of its own temp file
ConcBodies ==
    { [videoId |-> id, title |-> <<"a"," ","-"," ","&">>, channelTitle |-> << >>,
       thumbnail |-> << >>, knownMetadata |-> NoMetadata] : id \in VideoIds }
    \cup
    { [videoId |-> <<"v">>, title |-> <<"v","_","t","e","m","p">>,
       channelTitle |-> << >>, thumbnail |-> << >>, knownMetadata |-> NoMetadata] }

\* the condition of the ternary that builds songTitle (|| binds tighter than ?:)
UsesArtistRegExp(d) == d.iTunesMetadata.trackName # << >> \/ d.parsedArtist # << >>

\* const songTitle = ...
songTitleOf(d) ==
    IF UsesArtistRegExp(d)
    THEN Trim(StripArtistPrefix(d.title, d.parsedArtist))
    ELSE OrElse(d.title, d.videoId)

\* const finalFilename = ...
finalFilenameOf(d) ==
    LET finalSongTitle == OrElse(d.iTunesMetadata.trackName, d.songTitle)
        finalArtist == OrElse(d.iTunesMetadata.artistName, d.parsedArtist)
    IN IF finalArtist # << >> /\ finalSongTitle # << >>
       THEN sanitizeFilename(finalArtist \o <<" ","-"," ">> \o finalSongTitle)
       ELSE sanitizeFilename(OrElse(d.title, d.videoId))

Send(d, events) == [d EXCEPT !.stream = @ \o events]

\* [mutation] the catch block writes the error event and leaves the response open
FailWithoutEnd(d) == [Send(d, <<ErrorEvent>>) EXCEPT !.pc = "done"]

\* catch (error) { res.write(error event); res.end() }
Fail(d) == [Send(d, <<ErrorEvent>>) EXCEPT !.pc = "done", !.ended = TRUE]

\* one iteration of the loop of downloadAudio up to its await:
\* onProgress(10, "Trying download method i/5...") and the spawn
StartAttempt(d, i) ==
    [Send(d, <<Event("downloading", 10, NoUrl)>>) EXCEPT
        !.pc = "running", !.attempt = i,
        !.spawned = Append(@, PLAYER_CLIENTS[i]), !.alive = @ + 1]

\* sendProgress(15) and the call of downloadAudio
BeginDownload(d) == StartAttempt(Send(d, <<Event("downloading", 15, NoUrl)>>), 1)

\* the handler from its first line to its first await
Accept(r, bodies, limit) ==
    /\ dl[r].pc \in {"idle", "done", "rejected"}
    /\ served < limit
    /\ \E body \in bodies :
        LET d0 == [IdleRequest EXCEPT !.videoId = body.videoId, !.title = body.title,
                       !.channelTitle = body.channelTitle,
                       !.thumbnail = body.thumbnail,
                       !.knownMetadata = body.knownMetadata,
                       !.parsedArtist = ParsedArtist(body.title, body.channelTitle),
                       !.parsedAlbum = ParsedAlbum(body.title),
                       !.parsedGenre = ParsedGenre(body.title)]
            d1 == Send(d0, <<Event("downloading", 5, NoUrl),
                             Event("downloading", 10, NoUrl)>>)
            knownMetadata == body.knownMetadata
        IN IF body.videoId = << >>
           THEN dl' = [dl EXCEPT ![r] = [d0 EXCEPT !.pc = "rejected",
                                                  !.httpStatus = 400, !.ended = TRUE]]
           ELSE IF knownMetadata.found
           THEN dl' = [dl EXCEPT ![r] =
                         BeginDownload([d1 EXCEPT !.iTunesMetadata = knownMetadata,
                                                  !.httpStatus = 200])]
           ELSE dl' = [dl EXCEPT ![r] = [d1 EXCEPT !.pc = "itunes", !.lookedUp = TRUE,
                                                  !.httpStatus = 200]]
    /\ served' = served + 1
    /\ UNCHANGED files
    /\ UNCHANGED <<fileVars, searchVars, cacheVars, pureVars, sideVars>>

\* searchITunesSongMetadata returns (it never throws)
CatalogReturnsFrom(r, answers) ==
    /\ dl[r].pc = "itunes"
    /\ \E answer \in answers :
          dl' = [dl EXCEPT ![r] = BeginDownload([@ EXCEPT !.iTunesMetadata = answer])]
    /\ UNCHANGED <<files, served>>
    /\ UNCHANGED <<fileVars, searchVars, cacheVars, pureVars, sideVars>>

CatalogReturns(r) == CatalogReturnsFrom(r, CatalogAnswers)

\* ytdlp.stdout.on("data"), one line of the chunk
StdoutLine(r, lines, maxLines) ==
    /\ dl[r].pc = "running"
    /\ dl[r].nlines < maxLines
    /\ \E line \in lines :
          LET progress ==
                 IF line.percent # NoPercent
                 THEN <<Event("downloading", ScaledProgress(line.percent), NoUrl)>>
                 ELSE << >>
              converting ==
                 IF line.extractAudio THEN <<ConvertingEvent>> ELSE << >>
          IN dl' = [dl EXCEPT ![r] =
                       [Send(@, progress \o converting) EXCEPT !.nlines = @ + 1]]
    /\ UNCHANGED <<files, served>>
    /\ UNCHANGED <<fileVars, searchVars, cacheVars, pureVars, sideVars>>

\* embedID3Tags up to its first await: the primary art when there is a URL,
\* else the fallback art (thumbnail || youtubeHDThumbnail is never empty)
BeginTagging(d) ==
    IF d.iTunesMetadata.albumArt # << >>
    THEN [d EXCEPT !.pc = "art1"]
    ELSE [d EXCEPT !.pc = "art2"]

\* [mutation] the values parsed from the title come first
FinalMetadataParsedFirst(d) ==
    [artist |-> OrElse(d.parsedArtist, d.iTunesMetadata.artistName),
     album |-> OrElse(d.parsedAlbum, d.iTunesMetadata.albumName),
     genre |-> OrElse(d.parsedGenre, d.iTunesMetadata.genre)]

\* const finalMetadata = { artist: iTunesMetadata?.artistName ||
\* parsedMetadata.artist || "", ... }
FinalMetadataOf(d) ==
    [artist |-> OrElse(d.iTunesMetadata.artistName, d.parsedArtist),
     album |-> OrElse(d.iTunesMetadata.albumName, d.parsedAlbum),
     genre |-> OrElse(d.iTunesMetadata.genre, d.parsedGenre)]

\* the handler after downloadAudio has returned, up to the await of embedID3Tags
AfterAcquisition(d, dir) ==
    LET d1 == Send([d EXCEPT !.alive = @ - 1, !.returned = TRUE],
                   <<Event("processing", 85, NoUrl)>>)
        d2 == [d1 EXCEPT !.acquired = TRUE, !.finalMetadata = FinalMetadataOf(d)]
    IN IF TempName(d.videoId) \notin DOMAIN dir THEN Fail(d1)
       ELSE IF UsesArtistRegExp(d) /\ RegExpThrows(d.parsedArtist) THEN Fail(d2)
       ELSE BeginTagging([d2 EXCEPT !.songTitle = songTitleOf(d)])

\* what a yt-dlp run that exits 0 leaves at its -o path
WriteOutput(dir, name, r) ==
    [n \in DOMAIN dir \cup {name} |->
        IF n = name THEN [owner |-> r, tags |-> "none"] ELSE dir[n]]

\* ytdlp.on("close") with code 0: downloadAudio returns
ProcSucceeds(r) ==
    /\ dl[r].pc = "running"
    /\ \E written \in BOOLEAN :
          LET dir == IF written THEN WriteOutput(files, TempName(dl[r].videoId), r)
                     ELSE files
          IN /\ files' = dir
             /\ dl' = [dl EXCEPT ![r] = AfterAcquisition(@, dir)]
    /\ UNCHANGED served
    /\ UNCHANGED <<fileVars, searchVars, cacheVars, pureVars, sideVars>>

\* the catch of downloadAudio's loop: next client, or throw lastError
AttemptFailed(d) ==
    LET d1 == [d EXCEPT !.lastError = PLAYER_CLIENTS[d.attempt], !.alive = @ - 1]
    IN IF d.attempt < Len(PLAYER_CLIENTS)
       THEN StartAttempt(d1, d.attempt + 1)
       ELSE Fail([d1 EXCEPT !.thrown = d1.lastError])

\* ytdlp.on("close") with a non-zero code, or ytdlp.on("error")
ProcFails(r) ==
    /\ dl[r].pc = "running"
    /\ dl' = [dl EXCEPT ![r] = AttemptFailed(@)]
    /\ UNCHANGED <<files, served>>
    /\ UNCHANGED <<fileVars, searchVars, cacheVars, pureVars, sideVars>>

\* NodeID3.write(tags, filePath): rewrites the file when it is there
WriteTags(dir, name, tags) ==
    IF name \in DOMAIN dir THEN [dir EXCEPT ![name].tags = tags] ELSE dir

\* a string that is not a URL: http.get(url) throws (ERR_INVALID_URL) before
\* it sends anything
NotAUrl == <<"x">>

\* `https://i.ytimg.com/vi/${videoId}/maxresdefault.jpg`
youtubeHDThumbnail(videoId) == <<"h", "/">> \o videoId

\* fallbackArtUrl: thumbnail || youtubeHDThumbnail
FallbackArtUrl(d) == OrElse(d.thumbnail, youtubeHDThumbnail(d.videoId))

\* how fetchImageAsBuffer(url) can end: the promise resolves with the image,
\* resolves with null (status not 200, error event), or the call of get throws
\* inside the executor and the promise rejects
FetchOutcomes(url) == IF url = NotAUrl THEN {"throws"} ELSE {"image", "null"}

\* fetchImageAsBuffer(albumArtUrl) settles
PrimaryArtFetched(r) ==
    /\ dl[r].pc = "art1"
    /\ \E outcome \in FetchOutcomes(dl[r].iTunesMetadata.albumArt) :
          CASE outcome = "image" ->
                 /\ files' = WriteTags(files, TempName(dl[r].videoId), "image")
                 /\ dl' = [dl EXCEPT ![r].pc = "tagged", ![r].art = outcome]
            [] outcome = "null" ->
                 /\ dl' = [dl EXCEPT ![r].pc = "art2", ![r].art = outcome]
                 /\ UNCHANGED files
            [] outcome = "throws" ->
                 /\ dl' = [dl EXCEPT ![r].pc = "tagged", ![r].art = outcome]
                 /\ UNCHANGED files
    /\ UNCHANGED served
    /\ UNCHANGED <<fileVars, searchVars, cacheVars, pureVars, sideVars>>

\* fetchImageAsBuffer(fallbackArtUrl) settles
FallbackArtFetched(r) ==
    /\ dl[r].pc = "art2"
    /\ \E outcome \in FetchOutcomes(FallbackArtUrl(dl[r])) :
          /\ files' = IF outcome = "throws" THEN files
                      ELSE WriteTags(files, TempName(dl[r].videoId),
                                     IF outcome = "image" THEN "image" ELSE "text")
          /\ dl' = [dl EXCEPT ![r].pc = "tagged", ![r].art = outcome]
    /\ UNCHANGED served
    /\ UNCHANGED <<fileVars, searchVars, cacheVars, pureVars, sideVars>>

\* fs.renameSync(tempPath, actualPath)
Rename(dir, from, to) ==
    [n \in (DOMAIN dir \ {from}) \cup {to} |-> IF n = to THEN dir[from] ELSE dir[n]]

\* the handler after embedID3Tags: final name, rename, last two events, end
Finalize(r) ==
    /\ dl[r].pc = "tagged"
    /\ \E d \in {dl[r]} :
       \E tempName \in {TempName(d.videoId)}, finalFilename \in {finalFilenameOf(d)} :
       \E actualName \in {ResolveActualPath(files, finalFilename, tempName)} :
          IF tempName # actualName /\ tempName \notin DOMAIN files
          THEN /\ dl' = [dl EXCEPT ![r] = Fail(d)]
               /\ UNCHANGED files
          ELSE /\ files' = IF tempName # actualName
                           THEN Rename(files, tempName, actualName)
                           ELSE files
               /\ dl' = [dl EXCEPT ![r] =
                            [Send(d, <<Event("processing", 95, NoUrl),
                                       CompleteEvent(actualName)>>)
                             EXCEPT !.pc = "done", !.ended = TRUE]]
    /\ UNCHANGED served
    /\ UNCHANGED <<fileVars, searchVars, cacheVars, pureVars, sideVars>>

InitDownloads ==
    /\ files = << >>
    /\ dl = [r \in Slots |-> IdleRequest]
    /\ served = 0

-----------------------------------------------------------------------------
(* GET /api/files/:filename *)

\* A path is a sequence of names and a name is a sequence of characters.
\* The names are abbreviated: "a" is the working directory, "d" is
\* "downloads", "dd" is a sibling whose name begins with "downloads"
\* (downloads2, downloads.bak), "s" is a file.
CWD == << <<"a">> >>

\* path.join(process.cwd(), "downloads")
DOWNLOAD_DIR == CWD \o << <<"d">> >>

DiskDirs == { << >>, CWD, DOWNLOAD_DIR, CWD \o << <<"d","d">> >> }
DiskFiles ==
    { DOWNLOAD_DIR \o << <<"s">> >>,
      CWD \o << <<"d","d">>, <<"s">> >>,
      CWD \o << <<"s">> >> }

\* length of req.params.filename
MaxNameLen == 7

FileNameChars == {".", "/", "d", "s"}

\* req.params.filename: Express has decoded the path segment once, so it can
\* hold "/" (sent as %2F) and "%" (sent as %25)
FileNames ==
    UNION {[1..n -> FileNameChars] : n \in 1..MaxNameLen}
      \cup { <<"s","%">>,
             <<".",".","%","2","F","d","d","%","2","F","s">>,
             <<"s","%","2","6">> }

HexDigits == {"0","1","2","3","4","5","6","7","8","9",
              "A","B","C","D","E","F","a","b","c","d","e","f"}

\* decodeURIComponent throws URIError
URIMalformed(s) ==
    \E i \in 1..Len(s) :
        /\ s[i] = "%"
        /\ \/ i + 2 > Len(s)
           \/ s[i + 1] \notin HexDigits
           \/ s[i + 2] \notin HexDigits

\* s.split("/")
SplitPath[s \in Str] ==
    IF ~Includes(s, <<"/">>) THEN <<s>>
    ELSE LET i == IndexOf(s, <<"/">>)
         IN <<SubSeq(s, 1, i - 1)>> \o SplitPath[SubSeq(s, i + 1, Len(s))]

\* path.normalize on an absolute path: "" and "." are dropped, ".." removes
\* the name before it and stops at the root
NormalizeOnto[stack \in Seq(Str), segs \in Seq(Str)] ==
    IF segs = << >> THEN stack
    ELSE IF Head(segs) \in {<< >>, <<".">>}
         THEN NormalizeOnto[stack, Tail(segs)]
    ELSE IF Head(segs) = <<".",".">>
         THEN NormalizeOnto[IF stack = << >> THEN << >>
                            ELSE SubSeq(stack, 1, Len(stack) - 1), Tail(segs)]
    ELSE NormalizeOnto[Append(stack, Head(segs)), Tail(segs)]

\* path.join(dir, filename): the normalized names, and whether a trailing
\* separator is kept
PathJoin(dir, filename) ==
    [segs  |-> NormalizeOnto[dir, SplitPath[filename]],
     slash |-> filename # << >> /\ filename[Len(filename)] = "/"]

\* fs.existsSync: a regular file does not exist under a name with a trailing
\* separator
existsSync(p) == p.segs \in DiskDirs \/ (p.segs \in DiskFiles /\ ~p.slash)

PathString[segs \in Seq(Str)] ==
    IF segs = << >> THEN << >>
    ELSE <<"/">> \o Head(segs) \o PathString[Tail(segs)]

\* path.resolve of an absolute path, as a string
PathResolve(segs) == IF segs = << >> THEN <<"/">> ELSE PathString[segs]

\* the test that guards the stream
GuardPasses(safePath, root) == StartsWith(safePath, root)

Response(status, streamed) == [status |-> status, streamed |-> streamed]

NoRequest == << >>
NoResponse == Response(0, {})

\* the handler; streamed is the set of files piped into the response
ServeFile(rawFilename) ==
    IF URIMalformed(rawFilename) THEN Response(500, {})
    ELSE LET filename == decodeURIComponent(rawFilename)
             filePath == PathJoin(DOWNLOAD_DIR, filename)
         IN IF ~existsSync(filePath) THEN Response(404, {})
            ELSE IF ~GuardPasses(PathResolve(filePath.segs), PathResolve(DOWNLOAD_DIR))
                 THEN Response(403, {})
            \* createReadStream of a directory fails with EISDIR on the stream
            ELSE IF filePath.segs \in DiskFiles
                 THEN Response(200, {filePath.segs})
                 ELSE Response(200, {})

\* one request: the handler keeps nothing from one request to the next
GetFile ==
    /\ fileReq = NoRequest
    /\ \E filename \in FileNames :
          /\ fileReq' = filename
          /\ fileRes' = ServeFile(filename)
    /\ UNCHANGED <<dlVars, searchVars, cacheVars, pureVars, sideVars>>

-----------------------------------------------------------------------------
(* GET /api/search *)

\* A query is a sequence of words.
SearchSlots == {1, 2}

Queries == { << >>, <<"q">> }

\* req.query.type; << >> is a request without it
TypeParams == { << >>, <<"audio">>, <<"lyric">>, <<"both">>, <<"video">> }

\* (req.query.type as string) || "both"
TypeOf(param) == IF param = << >> THEN "both" ELSE param[1]

OFFICIAL_AUDIO == <<"official", "audio">>
LYRIC_VIDEO == <<"lyric", "video">>
AUDIO_OR_LYRIC_VIDEO == <<"audio", "OR", "lyric", "video">>

\* searchYouTube: the query sent to the search API
PrimaryQuery(query, type) ==
    IF type = "audio" THEN query \o OFFICIAL_AUDIO
    ELSE IF type = "lyric" THEN query \o LYRIC_VIDEO
    ELSE query \o AUDIO_OR_LYRIC_VIDEO

\* [mutation] the fallback gets the query of the primary call
FallbackQueryAsPrimary(query, type) == PrimaryQuery(query, type)

\* the handler: the query given to searchWithYtDlp
FallbackQuery(query, type) ==
    IF type = "audio" THEN query \o OFFICIAL_AUDIO
    ELSE IF type = "lyric" THEN query \o LYRIC_VIDEO
    ELSE query

\* how searchYouTube settles: resolved with items, resolved with an empty
\* list, rejected (https error, JSON.parse throws, json.error), or resolved
\* with a body that has neither error nor items
PrimaryFailures == {"networkError", "unparsable", "errorPayload"}
PrimaryOutcomes == {"items", "empty", "noItems"} \cup PrimaryFailures

\* how searchWithYtDlp settles (it never rejects)
FallbackOutcomes == {"close", "error", "timeout"}

IdleSearch ==
    [pc |-> "idle", q |-> << >>, type |-> "both", primary |-> "none",
     primaryQueries |-> << >>, fallbackQueries |-> << >>, status |-> 0,
     results |-> 0]

\* items = await searchWithYtDlp(searchQuery, 20)
StartFallback(d) ==
    [d EXCEPT !.pc = "fallback",
              !.fallbackQueries = Append(@, FallbackQuery(d.q, d.type))]

\* response = await searchYouTube(query, type)
StartPrimary(d) ==
    [d EXCEPT !.pc = "primary",
              !.primaryQueries = Append(@, PrimaryQuery(d.q, d.type))]

Answer(d, status, results) ==
    [d EXCEPT !.pc = "done", !.status = status, !.results = results]

\* the handler of part_003 up to its first await
SearchAccept(s) ==
    /\ search[s].pc = "idle"
    /\ \E q \in Queries, param \in TypeParams :
          LET d == [search[s] EXCEPT !.q = q, !.type = TypeOf(param)]
          IN search' = [search EXCEPT ![s] =
                 IF q = << >> THEN Answer(d, 400, 0)
                 ELSE IF apiKey THEN StartPrimary(d)
                 ELSE StartFallback(d)]
    /\ UNCHANGED <<apiKey, dlVars, fileVars, cacheVars, pureVars, sideVars>>

\* searchYouTube settles
PrimaryReturns(s) ==
    /\ search[s].pc = "primary"
    /\ \E outcome \in PrimaryOutcomes :
          LET d == [search[s] EXCEPT !.primary = outcome]
          IN search' = [search EXCEPT ![s] =
                 CASE outcome = "items" -> Answer(d, 200, 1)
                   \* items is undefined: items.length throws, outer catch
                   [] outcome = "noItems" -> Answer(d, 500, 0)
                   \* usedFallback || items.length === 0
                   [] OTHER -> StartFallback(d)]
    /\ UNCHANGED <<apiKey, dlVars, fileVars, cacheVars, pureVars, sideVars>>

\* searchWithYtDlp settles
FallbackReturns(s) ==
    /\ search[s].pc = "fallback"
    /\ \E outcome \in FallbackOutcomes, parsed \in 0..1 :
          search' = [search EXCEPT ![s] =
                        Answer(@, 200, IF outcome = "error" THEN 0 ELSE parsed)]
    /\ UNCHANGED <<apiKey, dlVars, fileVars, cacheVars, pureVars, sideVars>>

\* the handler of server/routes.ts up to its await
RoutesSearchAccept(s) ==
    /\ search[s].pc = "idle"
    /\ \E q \in Queries, param \in TypeParams :
          LET d == [search[s] EXCEPT !.q = q, !.type = TypeOf(param)]
          IN search' = [search EXCEPT ![s] =
                 IF q = << >> THEN Answer(d, 400, 0)
                 ELSE IF ~apiKey THEN Answer(d, 500, 0)
                 ELSE StartPrimary(d)]
    /\ UNCHANGED <<apiKey, dlVars, fileVars, cacheVars, pureVars, sideVars>>

\* searchYouTube settles in the handler of server/routes.ts
RoutesPrimaryReturns(s) ==
    /\ search[s].pc = "primary"
    /\ \E outcome \in PrimaryOutcomes :
          LET d == [search[s] EXCEPT !.primary = outcome]
          IN search' = [search EXCEPT ![s] =
                 CASE outcome = "items" -> Answer(d, 200, 1)
                   [] outcome = "empty" -> Answer(d, 200, 0)
                   \* a rejection, or response.items.filter on undefined
                   [] OTHER -> Answer(d, 500, 0)]
    /\ UNCHANGED <<apiKey, dlVars, fileVars, cacheVars, pureVars, sideVars>>

-----------------------------------------------------------------------------
(* findYouTubeForTrack and its cache *)

Callers == {1, 2}

\* upstream resolutions findYouTubeForTrack starts over the life of the server
MaxResolutions == 3

\* `${artistName.toLowerCase().trim()}|${trackName.toLowerCase().trim()}`;
\* SHA-256 is taken to be injective, and the key is the string it digests
getCacheKey(artistName, trackName) ==
    Trim(ToLowerCase(artistName)) \o <<"|">> \o Trim(ToLowerCase(trackName))

TrackPairs ==
    { [artistName |-> <<"A">>, trackName |-> <<"t">>],
      [artistName |-> <<"a">>, trackName |-> <<"t"," ">>],
      [artistName |-> <<"b">>, trackName |-> <<"t">>] }

\* thumbnails.high.url of an item: the video's picture
ThumbnailOf(videoId) == <<"i", "/">> \o videoId

Candidate(videoId, title) ==
    [videoId |-> videoId, title |-> title, thumbnail |-> ThumbnailOf(videoId)]

\* what a search (API or yt-dlp) can answer: an item of yt-dlp can lack its id
ItemLists ==
    { << >>,
      <<Candidate(<<"x">>, <<"o">>)>>,
      <<Candidate(<<"x">>, <<"o">>), Candidate(<<"y">>, <<"T">>)>>,
      <<Candidate(<< >>, <<"t">>)>> }

NoResult == [videoId |-> << >>, title |-> << >>, thumbnail |-> << >>]

IdleCall ==
    [pc |-> "idle", artistName |-> << >>, trackName |-> << >>, key |-> << >>,
     resolved |-> FALSE, outcome |-> "none", result |-> NoResult,
     \* how the search API and the yt-dlp search of this call have ended
     primary |-> "none", fallback |-> "none",
     \* how the insert of this call has ended ("written", "conflict" or
     \* "failed"), and its place among the inserts of the calls in flight
     insert |-> "none", rank |-> 0]

Row(videoId, title, thumbnail) ==
    [youtubeVideoId |-> videoId, youtubeTitle |-> title,
     youtubeThumbnail |-> thumbnail]

StaleRow == Row(<< >>, << >>, << >>)

\* the first item whose title includes the track name, else the first item
BestMatch(items, trackName) ==
    LET hit == {i \in 1..Len(items) :
                   Includes(ToLowerCase(items[i].title), ToLowerCase(trackName))}
    IN IF hit = {} THEN items[1]
       ELSE items[CHOOSE i \in hit : \A j \in hit : i <= j]

Return(d, outcome, result) ==
    [d EXCEPT !.pc = "done", !.outcome = outcome, !.result = result]

\* [mutation] a row without a video id remembers the failed resolution
NegativeRow(rows, key) ==
    [k \in DOMAIN rows \cup {key} |-> IF k = key THEN StaleRow ELSE rows[k]]

\* the rows after a resolution that found zero candidates: nothing is written
AfterZeroCandidates(rows, key) == rows

\* const query = ...: the upstream resolution starts
StartResolution(d) ==
    [d EXCEPT !.resolved = TRUE, !.pc = IF apiKey THEN "fetch" ELSE "ytdlp",
              !.primary = IF apiKey THEN "pending" ELSE "noKey"]

\* items is not empty: pick the result, then insert it when there is a database
PickResult(d, items) ==
    LET result == BestMatch(items, d.trackName)
    IN IF db THEN [d EXCEPT !.pc = "insert", !.result = result]
       ELSE Return(d, "found", result)

\* findYouTubeForTrack up to its first await
Call(c) ==
    /\ calls[c].pc \in {"idle", "done"}
    /\ upstream + Cardinality({x \in Callers : calls[x].pc \notin {"idle", "done"}
                                             /\ ~calls[x].resolved}) < MaxResolutions
    /\ \E pair \in TrackPairs :
          LET d == [IdleCall EXCEPT !.artistName = pair.artistName,
                                    !.trackName = pair.trackName,
                                    !.key = getCacheKey(pair.artistName, pair.trackName)]
          IN /\ calls' = [calls EXCEPT ![c] =
                    IF db THEN [d EXCEPT !.pc = "select"] ELSE StartResolution(d)]
             /\ upstream' = IF db THEN upstream ELSE upstream + 1
    /\ UNCHANGED <<db, cache, zeros, album, apiKey, search, dlVars, fileVars, pureVars, sideVars>>

\* cached.length > 0 and entry.youtubeVideoId is truthy
UsableRow(rows, key) == key \in DOMAIN rows /\ rows[key].youtubeVideoId # << >>

\* [mutation] the object returned on a cache hit, without the thumbnail
CachedResultWithoutThumbnail(entry) ==
    [videoId |-> entry.youtubeVideoId,
     title |-> OrElse(entry.youtubeTitle, << >>),
     thumbnail |-> << >>]

\* the object returned on a cache hit
CachedResult(entry) ==
    [videoId |-> entry.youtubeVideoId,
     title |-> OrElse(entry.youtubeTitle, << >>),
     thumbnail |-> OrElse(entry.youtubeThumbnail, << >>)]

\* db.select() settles
SelectReturns(c) ==
    /\ calls[c].pc = "select"
    /\ LET d == calls[c]
       IN \E throws \in BOOLEAN :
          IF throws
          THEN /\ calls' = [calls EXCEPT ![c] = Return(d, "error", NoResult)]
               /\ UNCHANGED upstream
          ELSE IF UsableRow(cache, d.key)
          THEN /\ calls' = [calls EXCEPT ![c] =
                      Return(d, "hit", CachedResult(cache[d.key]))]
               /\ UNCHANGED upstream
          ELSE IF d.key \in DOMAIN cache
          THEN /\ calls' = [calls EXCEPT ![c].pc = "delete"]
               /\ UNCHANGED upstream
          ELSE /\ calls' = [calls EXCEPT ![c] = StartResolution(d)]
               /\ upstream' = upstream + 1
    /\ UNCHANGED <<db, cache, zeros, album, apiKey, search, dlVars, fileVars, pureVars, sideVars>>

\* db.delete() of the stale row settles
DeleteReturns(c) ==
    /\ calls[c].pc = "delete"
    /\ \E throws \in BOOLEAN :
          IF throws
          THEN /\ calls' = [calls EXCEPT ![c] = Return(@, "error", NoResult)]
               /\ UNCHANGED <<cache, upstream>>
          ELSE /\ cache' = [k \in DOMAIN cache \ {calls[c].key} |-> cache[k]]
               /\ calls' = [calls EXCEPT ![c] = StartResolution(@)]
               /\ upstream' = upstream + 1
    /\ UNCHANGED <<db, zeros, album, apiKey, search, dlVars, fileVars, pureVars, sideVars>>

\* fetch() of the search API settles
FetchReturns(c) ==
    /\ calls[c].pc = "fetch"
    /\ \E outcome \in {"throws", "notOk", "ok"}, items \in ItemLists :
          LET d == [calls[c] EXCEPT !.primary =
                      IF outcome # "ok" THEN outcome
                      ELSE IF items = << >> THEN "empty" ELSE "items"]
          IN calls' = [calls EXCEPT ![c] =
                 IF outcome = "throws" THEN Return(d, "error", NoResult)
                 ELSE IF outcome = "notOk" \/ items = << >>
                      THEN [d EXCEPT !.pc = "ytdlp"]
                 ELSE PickResult(d, items)]
    /\ UNCHANGED <<db, cache, upstream, zeros, album, apiKey, search, dlVars, fileVars, pureVars, sideVars>>

\* searchWithYtDlp(query, 5) settles
YtdlpReturns(c) ==
    /\ calls[c].pc = "ytdlp"
    /\ \E items \in ItemLists :
          LET d == [calls[c] EXCEPT !.fallback =
                      IF items = << >> THEN "empty" ELSE "items"]
          IN IF items = << >>
             THEN /\ calls' = [calls EXCEPT ![c] = Return(d, "zero", NoResult)]
                  /\ cache' = AfterZeroCandidates(cache, d.key)
                  /\ zeros' = zeros + 1
             ELSE /\ calls' = [calls EXCEPT ![c] = PickResult(d, items)]
                  /\ UNCHANGED <<cache, zeros>>
    /\ UNCHANGED <<db, upstream, album, apiKey, search, dlVars, fileVars, pureVars, sideVars>>

\* db.insert().onConflictDoNothing() settles
InsertReturns(c) ==
    /\ calls[c].pc = "insert"
    /\ LET d == calls[c]
       IN \E throws \in BOOLEAN :
          IF throws
          THEN /\ calls' = [calls EXCEPT ![c] =
                      [Return(d, "error", NoResult) EXCEPT !.insert = "failed"]]
               /\ UNCHANGED cache
          ELSE /\ calls' = [calls EXCEPT ![c] =
                      [Return(d, "found", d.result) EXCEPT
                          !.insert = IF d.key \in DOMAIN cache THEN "conflict"
                                     ELSE "written",
                          !.rank = 1 + Cardinality({x \in Callers \ {c} :
                                                      calls[x].rank > 0})]]
               /\ cache' = IF d.key \in DOMAIN cache THEN cache
                           ELSE [k \in DOMAIN cache \cup {d.key} |->
                                    IF k = d.key
                                    THEN Row(d.result.videoId, d.result.title,
                                             d.result.thumbnail)
                                    ELSE cache[k]]
    /\ UNCHANGED <<db, upstream, zeros, album, apiKey, search, dlVars, fileVars, pureVars, sideVars>>

-----------------------------------------------------------------------------
(* GET /api/albums/:collectionId *)

NoAlbum == [pc |-> "idle", status |-> 0, tracks |-> << >>]

\* req.params.collectionId: parseInt gives a number or NaN
CollectionIds == {"1440839259", "abc"}
ParsesAsInt(id) == id = "1440839259"

\* the entries of wrapperType 'track' in the catalog's answer (the album has
\* up to one track per caller)
AlbumTracks == StringsUpTo(TrackPairs, Cardinality(Callers))

\* the entry of one track, from what findYouTubeForTrack returned for it
\* (ytResult?.videoId || undefined: a missing and an empty id are both << >>)
TrackEntry(d) ==
    LET ytResult == d.outcome \in {"hit", "found"}
    IN [trackName |-> d.trackName,
        artistName |-> d.artistName,
        youtubeVideoId |-> IF ytResult THEN d.result.videoId ELSE << >>,
        youtubeTitle |-> IF ytResult THEN d.result.title ELSE << >>,
        available |-> ytResult]

\* the handler up to the fetch of the catalog lookup
AlbumAccept ==
    /\ album.pc = "idle"
    /\ \E id \in CollectionIds :
          album' = IF ParsesAsInt(id)
                   THEN [album EXCEPT !.pc = "lookup"]
                   ELSE [album EXCEPT !.pc = "sent", !.status = 400]
    /\ UNCHANGED <<db, cache, calls, upstream, zeros, apiKey, search, dlVars,
                   fileVars, pureVars, sideVars>>

\* the lookup settles; every track's findYouTubeForTrack runs to its first await
LookupReturns ==
    /\ album.pc = "lookup"
    /\ \E outcome \in {"throws", "notOk", "ok"}, tracks \in AlbumTracks :
          IF outcome # "ok" \/ tracks = << >>
          THEN /\ album' = [album EXCEPT !.pc = "sent",
                                !.status = IF outcome = "throws" THEN 500
                                           ELSE IF outcome = "notOk" THEN 404
                                           ELSE IF tracks = << >> THEN 404 ELSE 200]
               /\ UNCHANGED <<calls, upstream>>
          ELSE /\ album' = [album EXCEPT !.pc = "resolving"]
               /\ calls' = [c \in Callers |->
                     IF c > Len(tracks) THEN IdleCall
                     ELSE LET d == [IdleCall EXCEPT
                                      !.artistName = tracks[c].artistName,
                                      !.trackName = tracks[c].trackName,
                                      !.key = getCacheKey(tracks[c].artistName,
                                                          tracks[c].trackName)]
                          IN IF db THEN [d EXCEPT !.pc = "select"]
                             ELSE StartResolution(d)]
               /\ upstream' = IF db THEN upstream ELSE upstream + Len(tracks)
    /\ UNCHANGED <<db, cache, zeros, apiKey, search, dlVars, fileVars, pureVars, sideVars>>

\* Promise.all settles: res.json with one entry per track
AlbumResponds ==
    /\ album.pc = "resolving"
    /\ \A c \in Callers : calls[c].pc \in {"idle", "done"}
    /\ album' = [album EXCEPT
                   !.pc = "sent", !.status = 200,
                   !.tracks = [c \in {x \in Callers : calls[x].pc = "done"} |->
                                 TrackEntry(calls[c])]]
    /\ UNCHANGED <<db, cache, calls, upstream, zeros, apiKey, search, dlVars,
                   fileVars, pureVars, sideVars>>

-----------------------------------------------------------------------------
(* searchWithYtDlp: the subprocess, its stdout and the promise *)

\* the subprocess prints at most this many lines
MaxStdoutLines == 2

\* stdout is a sequence of bytes.  An ASCII character is one byte and is
\* written as itself; U+00E9 is the two bytes "C3" "A9" and the character
\* "EACUTE"; "FFFD" is the replacement character of a broken UTF-8 sequence.
\* data.toString() decodes one chunk on its own
Utf8Decode[bytes \in Str] ==
    IF bytes = << >> THEN << >>
    ELSE IF bytes[1] = "C3" /\ Len(bytes) >= 2 /\ bytes[2] = "A9"
         THEN <<"EACUTE">> \o Utf8Decode[SubSeq(bytes, 3, Len(bytes))]
    ELSE IF bytes[1] \in {"C3", "A9"}
         THEN <<"FFFD">> \o Utf8Decode[Tail(bytes)]
    ELSE <<bytes[1]>> \o Utf8Decode[Tail(bytes)]

\* buffer.split("\n")
SplitNewline[s \in Str] ==
    LET nl == {i \in 1..Len(s) : s[i] = "\n"}
    IN IF nl = {} THEN <<s>>
       ELSE LET i == CHOOSE x \in nl : \A y \in nl : x <= y
            IN <<SubSeq(s, 1, i - 1)>> \o SplitNewline[SubSeq(s, i + 1, Len(s))]

JsonNull == <<"n","u","l","l">>
JsonIdOpen == <<"{","\"","i","d","\"",":","\"">>
JsonIdClose == <<"\"","}">>

\* the JSON text of an object whose only member is id
JsonId(id) == JsonIdOpen \o id \o JsonIdClose

\* JSON.parse(line) on the texts the model's subprocess prints: null, {} and
\* {"id":"..."}; everything else is a SyntaxError
JsonParse(line) ==
    LET t == Trim(line)
        inner == SubSeq(t, Len(JsonIdOpen) + 1, Len(t) - Len(JsonIdClose))
    IN IF t = JsonNull THEN [ok |-> TRUE, kind |-> "null", id |-> << >>]
       ELSE IF t = <<"{","}">> THEN [ok |-> TRUE, kind |-> "object", id |-> << >>]
       ELSE IF /\ Len(t) >= Len(JsonIdOpen) + Len(JsonIdClose)
               /\ StartsWith(t, JsonIdOpen) /\ EndsWith(t, JsonIdClose)
               /\ \A i \in 1..Len(inner) : inner[i] \notin {"\"", "\\", "\n"}
            THEN [ok |-> TRUE, kind |-> "object", id |-> inner]
       ELSE [ok |-> FALSE, kind |-> "none", id |-> << >>]

\* the loop over the complete lines: a blank line is passed over, a line that
\* is not JSON throws inside the try, and so does item.id when item is null
ParsedLines(lines) ==
    LET parsed == [i \in 1..Len(lines) |->
                     IF Trim(lines[i]) = << >>
                     THEN [ok |-> FALSE, kind |-> "none", id |-> << >>]
                     ELSE JsonParse(lines[i])]
        pushed == SelectSeq(parsed, LAMBDA p : p.ok /\ p.kind = "object")
    IN [j \in 1..Len(pushed) |-> Candidate(pushed[j].id, << >>)]

NoSearch ==
    [pc |-> "idle", query |-> << >>, mode |-> "none", proc |-> "none",
     killed |-> FALSE, rejected |-> FALSE,
     stdout |-> << >>, sent |-> 0, buffer |-> << >>,
     results |-> << >>,
     timer |-> "none", settled |-> FALSE, by |-> "none", value |-> << >>,
     resolves |-> 0]

\* resolve(value): only the first call settles the promise
Resolve(y, by, value) ==
    IF y.settled THEN [y EXCEPT !.resolves = @ + 1]
    ELSE [y EXCEPT !.settled = TRUE, !.by = by, !.value = value,
                   !.resolves = @ + 1]

\* ytdlp.stdout.on("data")
OnData(y, chunk) ==
    LET lines == SplitNewline[y.buffer \o Utf8Decode[chunk]]
    IN [y EXCEPT !.buffer = lines[Len(lines)],
                 !.results = @ \o ParsedLines(SubSeq(lines, 1, Len(lines) - 1)),
                 !.sent = @ + Len(chunk)]

\* the callback of setTimeout: ytdlp.kill(); resolve(results)
Timeout(y) ==
    Resolve([y EXCEPT !.timer = "fired", !.killed = @ \/ y.proc = "running"],
            "timer", y.results)

JoinLines[ls \in Seq(Str)] ==
    IF ls = << >> THEN << >> ELSE ls[1] \o <<"\n">> \o JoinLines[Tail(ls)]

\* what the subprocess prints in one line
LineTexts ==
    { JsonId(<<"a">>), JsonId(<<"C3", "A9">>), <<"{","\"","i","d","\"",":">>,
      JsonNull, <<"{","}">>, << >> }

\* the whole output: lines, the last one with or without its newline
Stdouts ==
    { IF terminated \/ ls = << >> THEN JoinLines[ls]
      ELSE SubSeq(JoinLines[ls], 1, Len(JoinLines[ls]) - 1) :
        ls \in StringsUpTo(LineTexts, MaxStdoutLines), terminated \in BOOLEAN }

\* how the subprocess behaves: it exits after its output, it never exits on
\* its own, it never exits and ignores the signal of kill(), or it cannot be
\* spawned
ProcModes == {"exits", "hangs", "ignoresKill", "spawnFails"}

\* the search text of a call; "NUL" is the character U+0000 (q=a%00)
YtQueries == { <<"q">>, <<"q", "NUL">> }

\* spawn() validates its arguments before it starts anything and throws for
\* an argument with a null byte
SpawnThrows(query) == \E i \in 1..Len(query) : query[i] = "NUL"

\* searchWithYtDlp: spawn, the listeners and the timer, all inside the
\* executor of the promise; an exception of the executor rejects the promise
YtSpawn ==
    /\ yt.pc = "idle"
    /\ \E query \in YtQueries, out \in Stdouts, mode \in ProcModes :
          yt' = IF SpawnThrows(query)
                THEN [yt EXCEPT !.pc = "called", !.query = query,
                                !.settled = TRUE, !.rejected = TRUE,
                                !.by = "throw"]
                ELSE [yt EXCEPT !.pc = "called", !.query = query, !.mode = mode,
                           !.proc = IF mode = "spawnFails" THEN "failing"
                                    ELSE "running",
                           !.stdout = IF mode = "spawnFails" THEN << >> ELSE out,
                           !.timer = "armed"]
    /\ UNCHANGED <<dlVars, fileVars, searchVars, cacheVars, pureVars, retag>>

\* one chunk of the output arrives
YtData ==
    /\ yt.proc = "running"
    /\ yt.sent < Len(yt.stdout)
    /\ \E k \in 1..(Len(yt.stdout) - yt.sent) :
          yt' = OnData(yt, SubSeq(yt.stdout, yt.sent + 1, yt.sent + k))
    /\ UNCHANGED <<dlVars, fileVars, searchVars, cacheVars, pureVars, retag>>

\* ytdlp.on("close"): the subprocess has exited and its streams are closed
YtClose ==
    /\ \/ yt.proc = "running" /\ yt.mode = "exits" /\ yt.sent = Len(yt.stdout)
       \/ yt.proc = "running" /\ yt.killed /\ yt.mode # "ignoresKill"
       \/ yt.proc = "failed"
    /\ yt' = Resolve([yt EXCEPT !.proc = "closed"], "close", yt.results)
    /\ UNCHANGED <<dlVars, fileVars, searchVars, cacheVars, pureVars, retag>>

\* ytdlp.on("error"): the subprocess could not be spawned
YtError ==
    /\ yt.proc = "failing"
    /\ yt' = Resolve([yt EXCEPT !.proc = "failed"], "error", << >>)
    /\ UNCHANGED <<dlVars, fileVars, searchVars, cacheVars, pureVars, retag>>

\* 15 seconds after the spawn
YtTimeout ==
    /\ yt.timer = "armed"
    /\ yt' = Timeout(yt)
    /\ UNCHANGED <<dlVars, fileVars, searchVars, cacheVars, pureVars, retag>>

-----------------------------------------------------------------------------
(* POST /api/library/retag-all *)

\* songs in the library
MaxSongs == 3

\* a field an event does not have
NoCount == 0 - 1

\* path.basename(p) of a path without a trailing separator
basename(p) == LET segs == SplitPath[p] IN segs[Len(segs)]

\* song.filePath of the rows of table songs: null, a file that is in the
\* download directory, a file that is not
SongRows == [filePath : { << >>, <<"s">>, <<"d","/","m">> }]
Libraries == UNION {[1..n -> SongRows] : n \in 0..MaxSongs}

IdleRetag ==
    [pc |-> "idle", allSongs |-> << >>, total |-> 0, processed |-> 0,
     success |-> 0, failed |-> 0, stream |-> << >>, ended |-> FALSE,
     \* why songs have failed so far
     reasons |-> {}]

RetagEvent(status, rt) ==
    [status |-> status, processed |-> rt.processed, total |-> rt.total,
     success |-> rt.success, failed |-> rt.failed]

\* sendProgress({ status: "starting", total, message })
StartingEvent(total) ==
    [status |-> "starting", processed |-> NoCount, total |-> total,
     success |-> NoCount, failed |-> NoCount]

\* sendProgress({ status: "error", message })
RetagErrorEvent ==
    [status |-> "error", processed |-> NoCount, total |-> NoCount,
     success |-> NoCount, failed |-> NoCount]

\* sendProgress({ status: "progress", processed, total, success, failed, ... })
Progress(rt) == [rt EXCEPT !.stream = Append(@, RetagEvent("progress", rt))]

\* [mutation] a song that fails is reported and not counted
SongFailedUncounted(rt, reason) ==
    Progress([rt EXCEPT !.reasons = @ \cup {reason}])

\* failed: ++failed in the event of a skipped song, failed++ in the catch
SongFailed(rt, reason) ==
    Progress([rt EXCEPT !.failed = @ + 1, !.reasons = @ \cup {reason}])

\* success++ and the event of a song that has been tagged again
SongRetagged(rt) == Progress([rt EXCEPT !.success = @ + 1])

\* !filePath || !fs.existsSync(filePath)
FileNotFound(song) ==
    \/ song.filePath = << >>
    \/ ~existsSync(PathJoin(DOWNLOAD_DIR, basename(song.filePath)))

\* the for loop from the top of an iteration to its next await, or to the
\* `complete` event and res.end() after the last song
RECURSIVE NextSong(_)
NextSong(rt) ==
    IF rt.processed = Len(rt.allSongs)
    THEN [rt EXCEPT !.stream = Append(@, RetagEvent("complete", rt)),
                    !.pc = "done", !.ended = TRUE]
    ELSE IF FileNotFound(rt.allSongs[rt.processed + 1])
         THEN NextSong(SongFailed([rt EXCEPT !.processed = @ + 1], "file"))
         ELSE [rt EXCEPT !.processed = @ + 1, !.pc = "lookup"]

\* the handler up to await storage.getAllSongs()
RetagAll ==
    /\ retag.pc = "idle"
    /\ retag' = [retag EXCEPT !.pc = "loading"]
    /\ UNCHANGED <<dlVars, fileVars, searchVars, cacheVars, pureVars, yt>>

\* getAllSongs resolves: the `starting` event and the loop up to its first await
SongsLoaded ==
    /\ retag.pc = "loading"
    /\ \E allSongs \in Libraries :
          retag' = NextSong([retag EXCEPT
                                !.allSongs = allSongs, !.total = Len(allSongs),
                                !.stream = <<StartingEvent(Len(allSongs))>>])
    /\ UNCHANGED <<dlVars, fileVars, searchVars, cacheVars, pureVars, yt>>

\* getAllSongs rejects: the outer catch
SongsNotLoaded ==
    /\ retag.pc = "loading"
    /\ retag' = [retag EXCEPT !.stream = <<RetagErrorEvent>>,
                              !.pc = "failed", !.ended = TRUE]
    /\ UNCHANGED <<dlVars, fileVars, searchVars, cacheVars, pureVars, yt>>

\* searchITunesSongMetadata returns (it never throws)
RetagCatalogReturns ==
    /\ retag.pc = "lookup"
    /\ \E found \in BOOLEAN :
          retag' = IF found THEN [retag EXCEPT !.pc = "tagging"]
                   ELSE NextSong(SongFailed(retag, "nomatch"))
    /\ UNCHANGED <<dlVars, fileVars, searchVars, cacheVars, pureVars, yt>>

\* embedID3Tags returns (it catches its own exceptions)
RetagTagsEmbedded ==
    /\ retag.pc = "tagging"
    /\ retag' = [retag EXCEPT !.pc = "updating"]
    /\ UNCHANGED <<dlVars, fileVars, searchVars, cacheVars, pureVars, yt>>

\* storage.updateSong resolves, or rejects into the catch of the iteration
SongUpdated ==
    /\ retag.pc = "updating"
    /\ \E rejected \in BOOLEAN :
          retag' = IF rejected THEN NextSong(SongFailed(retag, "exception"))
                   ELSE NextSong(SongRetagged(retag))
    /\ UNCHANGED <<dlVars, fileVars, searchVars, cacheVars, pureVars, yt>>

-----------------------------------------------------------------------------
(* Specifications *)

InitFiles ==
    /\ fileReq = NoRequest
    /\ fileRes = NoResponse

\* no helper has been called
NoCall == [fn |-> "none", args |-> << >>, out |-> << >>]

InitPure == pure = NoCall

InitSide == yt = NoSearch /\ retag = IdleRetag

InitSearch == search = [s \in SearchSlots |-> IdleSearch]

InitCache ==
    /\ album = NoAlbum
    /\ cache = << >>
    /\ calls = [c \in Callers |-> IdleCall]
    /\ upstream = 0
    /\ zeros = 0

\* one download request, every input
Init ==
    /\ InitDownloads
    /\ InitFiles
    /\ InitPure
    /\ InitSide
    /\ InitSearch
    /\ InitCache
    /\ apiKey = TRUE
    /\ db = TRUE

Next ==
    \/ Accept(1, Bodies, 1)
    \/ CatalogReturns(1)
    \/ StdoutLine(1, StdoutLines, MaxLines)
    \/ ProcSucceeds(1)
    \/ ProcFails(1)
    \/ PrimaryArtFetched(1)
    \/ FallbackArtFetched(1)
    \/ Finalize(1)

Spec == Init /\ [][Next]_vars

\* every subprocess exits, every HTTP call settles, and a continuation that
\* is ready is run by the event loop
Fairness ==
    /\ WF_vars(CatalogReturns(1))
    /\ WF_vars(ProcSucceeds(1) \/ ProcFails(1))
    /\ WF_vars(PrimaryArtFetched(1))
    /\ WF_vars(FallbackArtFetched(1))
    /\ WF_vars(Finalize(1))

\* the same request with fewer stdout lines
LiveNext ==
    \/ Accept(1, Bodies, 1)
    \/ CatalogReturns(1)
    \/ StdoutLine(1, StdoutLines, LiveMaxLines)
    \/ ProcSucceeds(1)
    \/ ProcFails(1)
    \/ PrimaryArtFetched(1)
    \/ FallbackArtFetched(1)
    \/ Finalize(1)

LiveSpec == Init /\ [][LiveNext]_vars /\ Fairness

\* a file an earlier run of the server has left in the download directory
EarlierFile == [owner |-> 0, tags |-> "image"]

InitConc ==
    /\ files \in { << >>,
                   [n \in {<<"a","_","-","_","&">> \o MP3} |-> EarlierFile] }
    /\ dl = [r \in Slots |-> IdleRequest]
    /\ served = 0
    /\ InitFiles
    /\ InitPure
    /\ InitSide
    /\ InitSearch
    /\ InitCache
    /\ apiKey = TRUE
    /\ db = TRUE

\* requests in both slots, one after another and at the same time; the
\* subprocesses print no progress, and an acquisition ends with its first
\* client profile (with or without an output file)
ConcNext ==
    \E r \in Slots :
        \/ Accept(r, ConcBodies, MaxRequests)
        \/ CatalogReturns(r)
        \/ ProcSucceeds(r)
        \/ PrimaryArtFetched(r)
        \/ FallbackArtFetched(r)
        \/ Finalize(r)

SpecConc == InitConc /\ [][ConcNext]_vars

\* videoIds with separators and dot segments: "../v", and a videoId that is
\* a video's id followed by a second query parameter, "v&x=/../../v" (the
\* URL built from it, watch?v=v&x=/../../v, is still the URL of video v)
PathVideoIds ==
    { <<"v">>,
      <<".",".","/","v">>,
      <<"v","&","x","=","/",".",".","/",".",".","/","v">> }
PathTitles == { << >>, <<".",".","/",".",".","/","s">>, <<".",".">>,
                <<".","."," ","-"," ","/">> }
PathKnown ==
    { NoMetadata,
      [found |-> TRUE, trackName |-> <<".",".","/","t">>,
       artistName |-> <<"/",".",".">>, albumName |-> << >>, genre |-> << >>,
       albumArt |-> << >>] }
PathBodies ==
    [videoId : PathVideoIds, title : PathTitles, channelTitle : ChannelTitles,
     thumbnail : Thumbnails, knownMetadata : PathKnown]

\* one request at a time whose body carries separators and dot segments
PathNext ==
    \/ Accept(1, PathBodies, 1)
    \/ CatalogReturns(1)
    \/ StdoutLine(1, StdoutLines, LiveMaxLines)
    \/ ProcSucceeds(1)
    \/ ProcFails(1)
    \/ PrimaryArtFetched(1)
    \/ FallbackArtFetched(1)
    \/ Finalize(1)

SpecPaths == Init /\ [][PathNext]_vars

\* one request to tag the library again
RetagNext ==
    \/ RetagAll
    \/ SongsLoaded
    \/ SongsNotLoaded
    \/ RetagCatalogReturns
    \/ RetagTagsEmbedded
    \/ SongUpdated

SpecRetag == Init /\ [][RetagNext]_vars

\* requests for files
SpecFiles == Init /\ [][GetFile]_vars

InitConfigured ==
    /\ InitDownloads
    /\ InitFiles
    /\ InitPure
    /\ InitSide
    /\ InitSearch
    /\ InitCache
    /\ apiKey \in BOOLEAN
    /\ db \in BOOLEAN

\* searches through the handler of part_003
SearchNext ==
    \E s \in SearchSlots :
        \/ SearchAccept(s)
        \/ PrimaryReturns(s)
        \/ FallbackReturns(s)

SpecSearch == InitConfigured /\ [][SearchNext]_vars

\* searches through the handler of server/routes.ts
RoutesSearchNext ==
    \E s \in SearchSlots :
        \/ RoutesSearchAccept(s)
        \/ RoutesPrimaryReturns(s)

SpecSearchRoutes == InitConfigured /\ [][RoutesSearchNext]_vars

\* album resolution: concurrent calls of findYouTubeForTrack on a table that
\* can hold a row without a video id
InitCacheRows ==
    /\ InitDownloads
    /\ InitFiles
    /\ InitPure
    /\ InitSide
    /\ InitSearch
    /\ apiKey \in BOOLEAN
    /\ db \in BOOLEAN
    /\ cache \in { << >>, [k \in {getCacheKey(<<"a">>, <<"t">>)} |-> StaleRow] }
    /\ calls = [c \in Callers |-> IdleCall]
    /\ upstream = 0
    /\ zeros = 0
    /\ album = NoAlbum

CacheNext ==
    \E c \in Callers :
        \/ Call(c)
        \/ SelectReturns(c)
        \/ DeleteReturns(c)
        \/ FetchReturns(c)
        \/ YtdlpReturns(c)
        \/ InsertReturns(c)

SpecCache == InitCacheRows /\ [][CacheNext]_vars

\* one album request: its tracks are resolved at the same time
AlbumNext ==
    \/ AlbumAccept
    \/ LookupReturns
    \/ AlbumResponds
    \/ \E c \in Callers :
          \/ SelectReturns(c)
          \/ DeleteReturns(c)
          \/ FetchReturns(c)
          \/ YtdlpReturns(c)
          \/ InsertReturns(c)

SpecAlbum == InitCacheRows /\ [][AlbumNext]_vars

\* one request whose title, channel and knownMetadata carry an artist, an
\* album and a genre each, or only some of them
MetaTitles ==
    { <<"s">>,
      <<"a"," ","-"," ","p","o","p"," ","(","f","r","o","m"," ","x",")">>,
      <<"r","o","c","k"," ","a","l","b","u","m",":"," ","y">> }
MetaKnown ==
    { NoMetadata,
      [found |-> TRUE, trackName |-> <<"t">>, artistName |-> <<"k">>,
       albumName |-> <<"l">>, genre |-> <<"g">>, albumArt |-> << >>],
      [found |-> TRUE, trackName |-> <<"t">>, artistName |-> << >>,
       albumName |-> <<"l">>, genre |-> << >>, albumArt |-> << >>],
      [found |-> TRUE, trackName |-> << >>, artistName |-> << >>,
       albumName |-> << >>, genre |-> << >>, albumArt |-> << >>] }
MetaBodies ==
    [videoId : {<<"v">>}, title : MetaTitles, channelTitle : ChannelTitles,
     thumbnail : Thumbnails, knownMetadata : MetaKnown]
\* the catalog's answer: no match, a match, a match without genre and album
MetaCatalogAnswers ==
    CatalogAnswers \cup
    { [found |-> TRUE, trackName |-> <<"s">>, artistName |-> <<"i">>,
       albumName |-> << >>, genre |-> << >>, albumArt |-> << >>] }

\* one request whose art URLs come from the body: a URL, or a string that is
\* not one
TagKnown ==
    { [found |-> TRUE, trackName |-> <<"t">>, artistName |-> <<"k">>,
       albumName |-> <<"l">>, genre |-> <<"g">>, albumArt |-> url] :
         url \in {<< >>, <<"u">>, NotAUrl} }
TagBodies ==
    [videoId : {<<"v">>}, title : Titles, channelTitle : {<< >>},
     thumbnail : {<< >>, <<"u">>, NotAUrl},
     knownMetadata : {NoMetadata} \cup TagKnown]

TagNext ==
    \/ Accept(1, TagBodies, 1)
    \/ CatalogReturns(1)
    \/ StdoutLine(1, StdoutLines, LiveMaxLines)
    \/ ProcSucceeds(1)
    \/ ProcFails(1)
    \/ PrimaryArtFetched(1)
    \/ FallbackArtFetched(1)
    \/ Finalize(1)

SpecTagging == Init /\ [][TagNext]_vars

MetaNext ==
    \/ Accept(1, MetaBodies, 1)
    \/ CatalogReturnsFrom(1, MetaCatalogAnswers)
    \/ StdoutLine(1, StdoutLines, LiveMaxLines)
    \/ ProcSucceeds(1)
    \/ ProcFails(1)
    \/ PrimaryArtFetched(1)
    \/ FallbackArtFetched(1)
    \/ Finalize(1)

SpecMetadata == Init /\ [][MetaNext]_vars

\* one call of searchWithYtDlp; a timer of the event loop fires
YtNext ==
    \/ YtSpawn
    \/ YtData
    \/ YtClose
    \/ YtError
    \/ YtTimeout

SpecYtDlp == Init /\ [][YtNext]_vars /\ WF_vars(YtTimeout)

-----------------------------------------------------------------------------
(* The pure helpers, called on their own *)

Pad(n) == [i \in 1..n |-> "a"]

\* file names around the length limit: a run of letters, then a tail with
\* white space and characters the file system forbids
SanitizeChars == {"a", " ", "\t", "/", "?"}
SanitizeInputs ==
    { Pad(n) \o t : n \in {0} \cup ((MaxFilenameLen - 3)..MaxFilenameLen),
                    t \in StringsUpTo(SanitizeChars, MaxTailLen) }

CallSanitizeFilename ==
    /\ pure.fn = "none"
    /\ \E x \in SanitizeInputs :
          pure' = [fn |-> "sanitizeFilename", args |-> <<x>>,
                   out |-> sanitizeFilename(x)]
    /\ UNCHANGED <<dlVars, fileVars, searchVars, cacheVars, sideVars>>

\* Array.join(" ")
JoinWords[ws \in Seq(Str)] ==
    IF ws = << >> THEN << >>
    ELSE IF Len(ws) = 1 THEN ws[1]
    ELSE ws[1] \o <<" ">> \o JoinWords[Tail(ws)]

\* the words the strings compared are made of; the empty word makes leading,
\* trailing and double blanks
SimWords == { << >>, <<"a","b">>, <<"a","b","c">>, <<"A","B","C">>,
              <<"x","a","b","c">>, <<"x","y","z">> }
StringsOf(n) == { JoinWords[ws] : ws \in StringsUpTo(SimWords, n) }
SimStrings == StringsOf(MaxWords)

CallStringSimilarity ==
    /\ pure.fn = "none"
    /\ \E a \in SimStrings, b \in StringsOf(2) :
          pure' = [fn |-> "stringSimilarity", args |-> <<a, b>>,
                   out |-> stringSimilarity(a, b)]
    /\ UNCHANGED <<dlVars, fileVars, searchVars, cacheVars, sideVars>>

\* names of the catalog's tracks: equal to the search terms, sharing one of
\* two words with them, contained in them, or missing
CatalogArtists == { << >>, <<"a","b","c"," ","x","y","z">>,
                    <<"x","y","z"," ","a","b","d">> }
CatalogNames == CatalogArtists \cup { <<"a","b","c">> }
CatalogTracks ==
    { [artistName |-> a, trackName |-> t,
       collectionName |-> IF a = << >> THEN <<"k">> ELSE a] :
         a \in CatalogArtists, t \in CatalogNames }
CatalogResponses ==
    {[ok |-> FALSE, results |-> << >>]} \cup
    { [ok |-> TRUE, results |-> ts] : ts \in StringsUpTo(CatalogTracks, MaxCandidates) }

\* the artist and the title the download handler asks the catalog about
CatalogQueries ==
    { <<a, t>> : a \in { << >>, <<"a","b","c"," ","x","y","z">> },
                 t \in { <<"a","b","c"," "," ","x","y","z"," ">>,
                         <<"a","b","c"," ","x","y","z"," ","-"," ","a","b","c"," ","x","y","z">> } }

CallSearchITunesSongMetadata ==
    /\ pure.fn = "none"
    /\ \E q \in CatalogQueries, response \in CatalogResponses :
          pure' = [fn |-> "searchITunesSongMetadata", args |-> <<q[1], q[2], response>>,
                   out |-> searchITunesSongMetadata(q[1], q[2], response)]
    /\ UNCHANGED <<dlVars, fileVars, searchVars, cacheVars, sideVars>>

\* what the three searches and the discography lookups answer: n entries
\* with consecutive collection ids and one name
Entries(n, base, name) == [i \in 1..n |-> Album(base + i, name)]
Songs(n, base, artistId) ==
    [i \in 1..n |-> [collectionId |-> base + i, collectionName |-> <<"z","z">>,
                     artistId |-> artistId]]
AlbumQueries == { <<"q","q">>, <<"t","h","e"," ","q","q">> }
AlbumNames == { <<"q","q">>, <<"z","z">> }
AlbumResponses ==
    { [ok |-> FALSE, results |-> << >>] } \cup
    { [ok |-> TRUE, results |-> Entries(n, 0, <<"z","z">>)] :
        n \in {1, AlbumSearchLimit} }
SongResponses ==
    { [ok |-> FALSE, results |-> << >>],
      [ok |-> TRUE, results |-> Songs(14, 100, 7)],
      [ok |-> TRUE, results |-> Songs(SongSearchLimit, 0, 0)],
      [ok |-> TRUE, results |-> Songs(SongSearchLimit, 100, 7)] }
ArtistResponses == { [ok |-> TRUE, results |-> ids] : ids \in {<< >>, <<7>>, <<8, 7>>} }
\* artist 7 has up to MaxDiscography albums, artist 8 one album of artist 7
Discographies ==
    { [a \in {7, 8} |->
         IF a = 8 THEN <<Album(201, <<"z","z">>)>>
         ELSE [i \in 1..Len(names) |-> Album(200 + i, names[i])]] :
        names \in StringsUpTo(AlbumNames, MaxDiscography) }

CallSearchITunesAlbums ==
    /\ pure.fn = "none"
    /\ \E query \in AlbumQueries, failed \in BOOLEAN, albumResponse \in AlbumResponses,
          songResponse \in SongResponses, artistResponse \in ArtistResponses,
          discographies \in Discographies :
          pure' = [fn |-> "searchITunesAlbums",
                   args |-> [query |-> query, failed |-> failed,
                             albumResponse |-> albumResponse,
                             songResponse |-> songResponse,
                             artistResponse |-> artistResponse,
                             discographies |-> discographies],
                   out |-> searchITunesAlbums(query, failed, albumResponse,
                                              songResponse, artistResponse,
                                              discographies)]
    /\ UNCHANGED <<dlVars, fileVars, searchVars, cacheVars, sideVars>>

SpecAlbums == Init /\ [][CallSearchITunesAlbums]_vars

\* artist and track names in both cases, with blanks around them
KeyArtists == StringsUpTo({"a", "A", " ", "SZ"}, MaxKeyLen)
KeyTracks == StringsUpTo({"t", "T", " "}, 2)

CallGetCacheKey ==
    /\ pure.fn = "none"
    /\ \E artistName \in KeyArtists, trackName \in KeyTracks :
          pure' = [fn |-> "getCacheKey", args |-> <<artistName, trackName>>,
                   out |-> getCacheKey(artistName, trackName)]
    /\ UNCHANGED <<dlVars, fileVars, searchVars, cacheVars, sideVars>>

PureNext ==
    \/ CallSanitizeFilename
    \/ CallStringSimilarity
    \/ CallGetCacheKey

SpecPure == Init /\ [][PureNext]_vars

\* the catalog's answers to one query
SpecCatalog == Init /\ [][CallSearchITunesSongMetadata]_vars

-----------------------------------------------------------------------------
(* Claims about one download request *)

Terminal == {"complete", "error"}

\* the request's last event is a terminal one of the given kinds
EndsWith200(d, kinds) ==
    /\ d.httpStatus = 200
    /\ d.ended
    /\ d.stream # << >>
    /\ d.stream[Len(d.stream)].status \in kinds

LastEvent(d) == d.stream[Len(d.stream)]

\* C1: the stream of an accepted request is one or more `downloading`
\* events, then zero or more `processing` events, then one terminal event
\* that is the last thing written before the stream is closed; no
\* `downloading` follows a `processing`; `complete` has a `processing`
\* before it.
C1_StreamOrder ==
    \A r \in Slots :
        LET s == dl[r].stream
            n == Len(s)
        IN dl[r].httpStatus = 200 =>
             /\ n >= 1
             /\ s[1].status = "downloading"
             /\ \A i \in 1..n :
                   s[i].status \in {"downloading", "processing"} \cup Terminal
             /\ \A i \in 1..n, j \in 1..n :
                   i < j => ~(s[i].status = "processing" /\ s[j].status = "downloading")
             /\ \A i \in 1..n : s[i].status \in Terminal => i = n
             /\ dl[r].ended <=> s[n].status \in Terminal
             /\ s[n].status = "complete" => \E i \in 1..n : s[i].status = "processing"

C1_Witness ==
    \E r \in Slots :
        /\ EndsWith200(dl[r], {"complete"})
        /\ \E i \in 1..Len(dl[r].stream) : dl[r].stream[i] = ConvertingEvent
        /\ \E i \in 1..Len(dl[r].stream) :
              dl[r].stream[i] = Event("downloading", 50, NoUrl)

\* C2: once a request is accepted, a terminal event is eventually written and
\* the response ended (every subprocess exits, every HTTP call settles).
C2_Terminates ==
    (dl[1].httpStatus = 200) ~> EndsWith200(dl[1], Terminal)

C2_Witness ==
    /\ EndsWith200(dl[1], {"complete"})
    /\ dl[1].lastError = "mweb"

\* the file the downloadUrl of a complete event names
UrlName(url) == decodeURIComponent(SubSeq(url, Len(API_FILES) + 1, Len(url)))

\* the events slot r writes in a step
NewEvents(r) ==
    IF /\ Len(dl'[r].stream) >= Len(dl[r].stream)
       /\ SubSeq(dl'[r].stream, 1, Len(dl[r].stream)) = dl[r].stream
    THEN SubSeq(dl'[r].stream, Len(dl[r].stream) + 1, Len(dl'[r].stream))
    ELSE dl'[r].stream

\* C3: a `complete` event has progress 100 and a downloadUrl /api/files/<name>
\* of a file that is in the download directory when the event is written; an
\* `error` event has progress 0 and no downloadUrl; no other event has a
\* downloadUrl.
C3_TerminalPayload ==
    [][\A r \in Slots :
          \A i \in 1..Len(NewEvents(r)) :
             LET e == NewEvents(r)[i]
             IN /\ e.status = "complete" =>
                     /\ e.progress = 100
                     /\ StartsWith(e.downloadUrl, API_FILES)
                     /\ UrlName(e.downloadUrl) \in DOMAIN files'
                /\ e.status = "error" => e.progress = 0 /\ e.downloadUrl = NoUrl
                /\ e.status \notin Terminal => e.downloadUrl = NoUrl]_vars

\* C4: every percentage downloadAudio passes to onProgress (the `downloading`
\* events after the three the handler writes itself) lies in [20,80] and is
\* not below the one before it.
C4_ProgressMonotone ==
    \A r \in Slots :
        LET s == dl[r].stream
        IN \A i \in 4..Len(s) :
              s[i].status = "downloading" =>
                 /\ s[i].progress >= 20
                 /\ s[i].progress <= 80
                 /\ \A j \in 4..(i - 1) :
                       s[j].status = "downloading" => s[j].progress <= s[i].progress

\* C6: a request whose acquisition succeeded and whose temp file exists ends
\* with `complete`.
C6_OnlyAcquisitionFails ==
    \A r \in Slots :
        dl[r].ended /\ dl[r].acquired => EndsWith200(dl[r], {"complete"})

-----------------------------------------------------------------------------
(* Claims about GET /api/files/:filename *)

\* the path lies below the download directory
InsideDownloadDir(segs) ==
    /\ Len(segs) > Len(DOWNLOAD_DIR)
    /\ SubSeq(segs, 1, Len(DOWNLOAD_DIR)) = DOWNLOAD_DIR

\* the path the handler resolves for a request
ResolvedPath(rawFilename) == PathJoin(DOWNLOAD_DIR, decodeURIComponent(rawFilename)).segs

\* C5: whatever :filename is, no file outside the download directory is
\* streamed, and a request whose resolved path is outside the download
\* directory is answered with a rejection.
C5_TraversalGuard ==
    fileReq # NoRequest =>
        /\ \A p \in fileRes.streamed : InsideDownloadDir(p)
        /\ ~URIMalformed(fileReq)
             /\ ResolvedPath(fileReq) # DOWNLOAD_DIR
             /\ ~InsideDownloadDir(ResolvedPath(fileReq))
           => fileRes.status \in {403, 404}

-----------------------------------------------------------------------------
(* Claims about findYouTubeForTrack *)

\* the step in which a call returns null after a resolution without candidates
ReturnsZero(c) ==
    /\ calls[c].pc # "done"
    /\ calls'[c].pc = "done"
    /\ calls'[c].outcome = "zero"

\* C7: a call that finds zero candidates returns null and writes no cache
\* row; every call that returns without a result and without an error has
\* queried upstream itself, a cached answer always carries a video id, and
\* there are at least as many upstream resolutions as zero-candidate calls.
C7_NoNegativeCaching ==
    /\ [][\A c \in Callers :
             ReturnsZero(c) => /\ cache' = cache
                               /\ calls'[c].result = NoResult
                               /\ calls[c].resolved]_vars
    /\ [](\A c \in Callers :
             /\ calls[c].outcome = "zero" => calls[c].resolved
             /\ calls[c].outcome = "hit" => calls[c].result.videoId # << >>
             /\ calls[c].outcome \in {"zero", "found"} => calls[c].resolved)
    /\ [](zeros <= upstream)

\* two calls for one key ended with zero candidates, each after its own
\* upstream resolution, and no row is cached
C7_Witness ==
    /\ db
    /\ zeros = 2
    /\ upstream = 2
    /\ DOMAIN cache = {}
    /\ \A c \in Callers : calls[c].outcome = "zero" /\ calls[c].key = <<"a","|","t">>

-----------------------------------------------------------------------------
(* Claims about GET /api/search *)

\* the request is answered and its primary search failed or could not be made
PrimaryUnavailable(d) ==
    /\ d.pc = "done"
    /\ d.q # << >>
    /\ ~apiKey \/ d.primary \in PrimaryFailures

\* C8: a search whose primary call fails, or for which no API key is set, is
\* answered 200 with the results of one fallback search.
C8_FallsThrough ==
    \A s \in SearchSlots :
        PrimaryUnavailable(search[s]) =>
            /\ search[s].status = 200
            /\ Len(search[s].fallbackQueries) = 1

\* the suffix of the mode in the table of the search modes
ModeSuffix(type) ==
    IF type = "audio" THEN OFFICIAL_AUDIO
    ELSE IF type = "lyric" THEN LYRIC_VIDEO
    ELSE AUDIO_OR_LYRIC_VIDEO

-----------------------------------------------------------------------------
(* Claims about the rename *)

\* the step in which the handler of slot r runs from embedID3Tags to res.end()
FinalizeStep(r) == dl[r].pc = "tagged" /\ dl'[r].pc = "done"

\* <base>.mp3 for k = 0 and <base>_k.mp3 for k > 0
NumberedName(base, k) ==
    IF k = 0 THEN base \o MP3 ELSE base \o <<"_">> \o NumberToString(k) \o MP3

\* the temp file of slot r has become the file `name`, and the `complete`
\* event names it
RenamedTo(r, name) ==
    /\ name \in DOMAIN files'
    /\ files'[name] = files[TempName(dl[r].videoId)]
    /\ TempName(dl[r].videoId) \notin DOMAIN files'
    /\ UrlName(LastEvent(dl'[r]).downloadUrl) = name

\* no file other than the temp file of slot r is removed or changed
OthersUntouched(r) ==
    \A n \in DOMAIN files \ {TempName(dl[r].videoId)} :
        n \in DOMAIN files' /\ files'[n] = files[n]

\* the temp file goes to the first free one of <base>.mp3, <base>_1.mp3, ...
ToFirstFreeName(r, base, from) ==
    \E k \in from..(Cardinality(DOMAIN files) + 1) :
        /\ NumberedName(base, k) \notin DOMAIN files
        /\ \A j \in 0..(k - 1) : NumberedName(base, j) \in DOMAIN files
        /\ RenamedTo(r, NumberedName(base, k))

C17_CacheHit ==
    [][\A c \in Callers :
          ( /\ calls[c].pc = "select"
            /\ calls'[c].pc # "select"
            /\ calls[c].key \in DOMAIN cache
            /\ cache[calls[c].key].youtubeVideoId # << >>
            /\ calls'[c].outcome # "error" )
          => /\ calls'[c].pc = "done"
             /\ calls'[c].outcome = "hit"
             /\ calls'[c].result.videoId = cache[calls[c].key].youtubeVideoId
             /\ calls'[c].result.title = cache[calls[c].key].youtubeTitle
             /\ calls'[c].result.thumbnail = cache[calls[c].key].youtubeThumbnail
             /\ ~calls'[c].resolved
             /\ upstream' = upstream
             /\ cache' = cache]_vars

\* a second call for a track an earlier call has resolved and cached
C17_Witness ==
    \E c \in Callers :
        /\ calls[c].outcome = "hit"
        /\ calls[c].key \in DOMAIN cache
        /\ cache[calls[c].key] = Row(<<"y">>, <<"T">>, ThumbnailOf(<<"y">>))
        /\ calls[c].result = Candidate(<<"y">>, <<"T">>)
        /\ ~calls[c].resolved

\* C19: when the search API is unavailable (no key, an error status, or the
\* request failing), findYouTubeForTrack runs the yt-dlp search before it
\* returns, and it returns null only when the search API and the yt-dlp
\* search have both given no candidate.
C19_FallbackOnUnavailable ==
    \A c \in Callers :
        (calls[c].pc = "done" /\ calls[c].resolved) =>
            /\ calls[c].primary \in {"noKey", "notOk", "throws"} =>
                  calls[c].fallback # "none"
            /\ calls[c].outcome \in {"zero", "error"} =>
                  /\ calls[c].primary \in {"noKey", "notOk", "throws", "empty"}
                  /\ calls[c].fallback = "empty"

\* C20: when findYouTubeForTrack finds a row without a video id it deletes
\* the row before it resolves; it never writes a row without a video id; so
\* after a call has returned, the cache holds for its key no row or a row
\* with a video id.
C20_SelfHealing ==
    /\ [][\A c \in Callers :
            /\ (calls'[c].resolved /\ ~calls[c].resolved /\ db) =>
                  calls[c].key \notin DOMAIN cache'
            /\ \A k \in DOMAIN cache' :
                  (k \notin DOMAIN cache \/ cache'[k] # cache[k]) =>
                      cache'[k].youtubeVideoId # << >>]_vars
    /\ [](\A c \in Callers :
            (db /\ calls[c].pc = "done") =>
                \/ calls[c].key \notin DOMAIN cache
                \/ cache[calls[c].key].youtubeVideoId # << >>)

\* the calls of one album request that share a cache key and have both returned
SameKeyPairs ==
    { p \in Callers \X Callers :
        /\ p[1] # p[2]
        /\ calls[p[1]].pc = "done" /\ calls[p[2]].pc = "done"
        /\ calls[p[1]].key = calls[p[2]].key }

\* C21: when two calls of findYouTubeForTrack for the same key run at the same
\* time, none of them fails on a duplicate key (an insert that meets a row
\* returns its own result), and once both have returned the table holds the
\* result of the insert that ran first
C21_FirstInsertWins ==
    \A p \in SameKeyPairs :
        LET d == calls[p[1]]
        IN /\ d.insert = "conflict" => d.outcome = "found"
           /\ d.rank = 1 =>
                 /\ d.key \in DOMAIN cache
                 /\ cache[d.key] = Row(d.result.videoId, d.result.title,
                                       d.result.thumbnail)

-----------------------------------------------------------------------------
(* Claims about the pure helpers *)

\* C11: sanitizeFilename is idempotent, and its result holds none of the
\* characters < > : " / \ | ? * and is at most 100 characters long.
C11_SanitizeIdempotent ==
    pure.fn = "sanitizeFilename" =>
        /\ sanitizeFilename(pure.out) = pure.out
        /\ \A i \in 1..Len(pure.out) : pure.out[i] \notin ForbiddenChars
        /\ Len(pure.out) <= 100

\* a name longer than the limit, with a forbidden character and a run of
\* white space across the limit
C11_Witness ==
    /\ pure.fn = "sanitizeFilename"
    /\ pure.args[1] = Pad(99) \o <<" ", "\t", "/">>
    /\ pure.out = Pad(99) \o <<"_">>

\* C18: downloadAudio spawns the client profiles in the order android,
\* android_vr, web, mweb, ios, the next one only after the one before has
\* ended without success (never two subprocesses alive for one request,
\* never more than five); it returns at the first exit with code 0 and
\* spawns nothing after that; when all five fail it throws the error of the
\* last one.
C18_SequentialFallback ==
    /\ [](\A r \in Slots :
            LET d == dl[r]
                n == Len(d.spawned)
            IN /\ n <= 5
               /\ d.spawned = SubSeq(<<"android", "android_vr", "web", "mweb", "ios">>, 1, n)
               /\ d.alive \in {0, 1}
               /\ d.alive = 1 =>
                     d.lastError = IF n = 1 THEN "none" ELSE d.spawned[n - 1]
               /\ d.thrown # "none" =>
                     /\ n = 5
                     /\ d.alive = 0
                     /\ ~d.returned
                     /\ d.thrown = "ios")
    /\ [][\A r \in Slots :
            /\ (dl[r].returned /\ dl'[r].returned) => dl'[r].spawned = dl[r].spawned
            /\ (dl[r].alive = 1 /\ dl'[r].returned) => dl'[r].spawned = dl[r].spawned
            /\ (dl[r].alive = 1 /\ Len(dl[r].spawned) = 5 /\ dl'[r].alive = 0
                   /\ ~dl'[r].returned) => dl'[r].thrown = "ios"
            /\ Len(dl'[r].spawned) > Len(dl[r].spawned) =>
                   /\ Len(dl'[r].spawned) = Len(dl[r].spawned) + 1
                   /\ dl[r].alive = 1 => dl'[r].lastError = dl[r].spawned[Len(dl[r].spawned)]
                   /\ ~dl[r].returned]_vars

\* the fourth profile has exited with code 0 after three failures
C18_Witness ==
    /\ dl[1].returned
    /\ dl[1].spawned = <<"android", "android_vr", "web", "mweb">>
    /\ dl[1].lastError = "web"
    /\ dl[1].alive = 0
    /\ dl[1].thrown = "none"

-----------------------------------------------------------------------------
(* Claims about albums and the resolver *)

\* C12: in the album response a track whose resolution found zero candidates
\* has available = false, and a track with available = true has a non-empty
\* youtubeVideoId.
C12_AvailableHasVideoId ==
    album.status = 200 =>
        \A c \in DOMAIN album.tracks :
            /\ calls[c].outcome = "zero" => ~album.tracks[c].available
            /\ album.tracks[c].available => album.tracks[c].youtubeVideoId # << >>

-----------------------------------------------------------------------------
(* Claims about stringSimilarity *)

\* C14: stringSimilarity(a, b) lies in [0, 1], and stringSimilarity(a, a) is 1
\* for every non-empty a.
C14_SimilarityRange ==
    pure.fn = "stringSimilarity" =>
        /\ pure.out[2] > 0
        /\ 0 <= pure.out[1]
        /\ pure.out[1] <= pure.out[2]
        /\ (pure.args[1] = pure.args[2] /\ pure.args[1] # << >>) =>
               pure.out[1] = pure.out[2]

\* a non-empty string is compared with itself
C14_Witness ==
    /\ pure.fn = "stringSimilarity"
    /\ pure.args = << <<"a","b","c"," ","x","y","z">>, <<"a","b","c"," ","x","y","z">> >>
    /\ pure.out = Fraction(1, 1)

\* C15: stringSimilarity("", b) is 0 for every string b.
C15_EmptyIsZero ==
    (pure.fn = "stringSimilarity" /\ pure.args[1] = << >>) => pure.out[1] = 0

-----------------------------------------------------------------------------
(* Claims about searchITunesSongMetadata *)

\* the first position, in catalog order, no position scores above
FirstMax(scores) ==
    CHOOSE i \in 1..Len(scores) :
        /\ \A j \in 1..Len(scores) : ~Less(scores[i], scores[j])
        /\ \A j \in 1..(i - 1) : Less(scores[j], scores[i])

-----------------------------------------------------------------------------
(* Claims about getCacheKey *)

\* C16: getCacheKey(artist, track) =
\* getCacheKey(upper(trim(artist)), lower(trim(track))) for all strings.
C16_KeyIgnoresCase ==
    pure.fn = "getCacheKey" =>
        pure.out = getCacheKey(ToUpperCase(Trim(pure.args[1])),
                               ToLowerCase(Trim(pure.args[2])))


-----------------------------------------------------------------------------
(* Claims about the metadata of a download *)

\* the value of one field: the first one that is not empty
Preferred(first, second) == IF first # << >> THEN first ELSE second

\* C24: with knownMetadata in the body no catalog lookup is made and artist,
\* album and genre are the knownMetadata values where these are not empty,
\* else the values parsed from the title; without knownMetadata they are the
\* values of the catalog match where these are not empty, else the parsed ones
C24_MetadataPrecedence ==
    \A r \in Slots :
        LET d == dl[r]
            source == IF d.knownMetadata.found THEN d.knownMetadata
                      ELSE d.iTunesMetadata
        IN /\ d.knownMetadata.found => ~d.lookedUp /\ d.pc # "itunes"
           /\ d.acquired =>
                 /\ d.finalMetadata.artist =
                       Preferred(source.artistName,
                                 ParsedArtist(d.title, d.channelTitle))
                 /\ d.finalMetadata.album =
                       Preferred(source.albumName, ParsedAlbum(d.title))
                 /\ d.finalMetadata.genre =
                       Preferred(source.genre, ParsedGenre(d.title))
                 /\ ~d.knownMetadata.found => d.lookedUp

\* a request with knownMetadata that has an album and no genre: the album is
\* the known one, the genre the one parsed from the title
C24_Witness ==
    \E r \in Slots :
        /\ dl[r].acquired
        /\ dl[r].knownMetadata.found
        /\ dl[r].knownMetadata.genre = << >>
        /\ dl[r].finalMetadata.album = <<"l">>
        /\ dl[r].finalMetadata.genre = <<"P","o","p">>
        /\ dl[r].finalMetadata.artist = <<"a">>

\* C25: embedID3Tags fetches the fallback art only when there is no primary
\* URL or the primary fetch has failed, embeds the first image it obtains, and
\* for every outcome of the fetches (an image, no image, an exception) it
\* returns and the text tags are written, without image when no fetch gave one
C25_CoverArtFallback ==
    [][\A r \in Slots :
          LET temp == TempName(dl[r].videoId)
          IN /\ (dl[r].pc # "art2" /\ dl'[r].pc = "art2") =>
                   \/ dl[r].pc = "art1" /\ dl'[r].art = "null"
                   \/ dl[r].pc = "running" /\ dl'[r].iTunesMetadata.albumArt = << >>
             /\ (dl[r].pc \in {"art1", "art2"} /\ dl'[r].pc # dl[r].pc
                    /\ temp \in DOMAIN files) =>
                   /\ dl'[r].pc \in {"art2", "tagged"}
                   /\ dl'[r].pc = "tagged" =>
                         /\ temp \in DOMAIN files'
                         /\ files'[temp].tags =
                               IF dl'[r].art = "image" THEN "image" ELSE "text"
      ]_vars

-----------------------------------------------------------------------------
(* Claims about searchITunesAlbums *)

\* C26: for every combination of answers of the album search, the song search
\* and the discographies, the list searchITunesAlbums returns has at most 30
\* entries
C26_AtMostThirty ==
    pure.fn = "searchITunesAlbums" => Len(pure.out) <= OtherAlbumsCap

-----------------------------------------------------------------------------
(* Claims about searchWithYtDlp *)

\* a step of the call in which the promise is settled
Settles == ~yt.settled /\ yt'.settled

\* C22: searchWithYtDlp never rejects and is settled exactly once: by close
\* with the records parsed, by a spawn error with the empty list, or by the
\* timer, whichever comes first; the timer kills a subprocess that has not
\* exited and settles with the records parsed so far; so every call is
\* settled in the end, also when the subprocess never exits
C22_SettledOnce ==
    /\ [][/\ ~yt'.rejected
          /\ yt.settled =>
               /\ yt'.settled
               /\ yt'.by = yt.by
               /\ yt'.value = yt.value
          /\ Settles =>
               /\ yt'.by \in {"close", "error", "timer"}
               /\ yt'.value = IF yt'.by = "error" THEN << >> ELSE yt.results
          /\ (yt.timer = "armed" /\ yt'.timer = "fired") =>
               /\ yt'.settled
               /\ yt.proc = "running" => yt'.killed
               /\ ~yt.settled => (yt'.by = "timer" /\ yt'.value = yt.results)
         ]_vars
    /\ (yt.pc = "called") ~> yt.settled

\* the list the output gives when it arrives in one chunk
InOneChunk(stdout) == OnData(NoSearch, stdout).results

\* all of the output has arrived and the call was settled by close
ClosedAfterAll ==
    /\ yt.by = "close"
    /\ yt.mode = "exits"
    /\ yt.sent = Len(yt.stdout)

\* C23: for every way of cutting the output into chunks searchWithYtDlp gives
\* the same list, the one it gives for the output in one chunk
C23_ChunkIndependent ==
    ClosedAfterAll => yt.value = InOneChunk(yt.stdout)

-----------------------------------------------------------------------------
(* Claims about overlapping downloads *)

\* the request of slot r is between its first await and its last event
InFlight(r) == dl[r].pc \in {"itunes", "running", "art1", "art2", "tagged"}

\* C27: two download requests in flight at the same time, also two for one
\* videoId, never use the same temporary file, and each one whose own
\* acquisition has succeeded ends with `complete`
C27_IndependentPipelines ==
    /\ \A r1, r2 \in Slots :
          (r1 # r2 /\ InFlight(r1) /\ InFlight(r2)) =>
             TempName(dl[r1].videoId) # TempName(dl[r2].videoId)
    /\ \A r \in Slots :
          (dl[r].ended /\ dl[r].acquired) => EndsWith200(dl[r], {"complete"})

-----------------------------------------------------------------------------
(* Claims about the paths of the download pipeline *)

\* path.join(DOWNLOAD_DIR, name), normalized
PathInDownloads(name) == PathJoin(DOWNLOAD_DIR, name).segs

\* the temp path of slot r has been handed to yt-dlp, embedID3Tags or the
\* rename
TempPathInUse(r) == dl[r].pc \in {"running", "art1", "art2", "tagged"}

\* C28: the temp path built from the videoId and the final path built from
\* the metadata lie inside the download directory, for every videoId, title,
\* channelTitle and knownMetadata of a request body: the path given to the
\* subprocess and the tagger, and every file the pipeline has written or
\* renamed
C28_WriteContainment ==
    /\ \A r \in Slots :
          TempPathInUse(r) => InsideDownloadDir(PathInDownloads(TempName(dl[r].videoId)))
    /\ \A name \in DOMAIN files : InsideDownloadDir(PathInDownloads(name))

\* the response of slot r has ended after a terminal event
Finished(r) == dl[r].pc = "done" /\ dl[r].ended

\* C29: after the terminal event of a request that has acquired its temp
\* file, no <videoId>_temp.mp3 written by that request is left in the
\* download directory: renamed on `complete`, removed on `error`
C29_NoLeftoverTemp ==
    \A r \in Slots :
        (Finished(r) /\ dl[r].acquired) =>
           ~(/\ TempName(dl[r].videoId) \in DOMAIN files
             /\ files[TempName(dl[r].videoId)].owner = r)

-----------------------------------------------------------------------------
(* Claims about POST /api/library/retag-all *)

\* the `progress` events of the stream, in order
ProgressEvents == SelectSeq(retag.stream, LAMBDA e : e.status = "progress")

\* an iteration of the loop is waiting at one of its awaits
SongInHand == retag.pc \in {"lookup", "tagging", "updating"}

\* C30: the stream has one `progress` event per song, with processed going up
\* by one from event to event and success + failed = processed in each; a
\* song that fails (file not found, no catalog match, exception) does not
\* stop the songs after it: the response ends only after every song has its
\* event, with a last event `complete` in which processed = total
C30_RetagAccounting ==
    /\ Len(ProgressEvents) = IF SongInHand THEN retag.processed - 1
                             ELSE retag.processed
    /\ \A k \in 1..Len(ProgressEvents) :
          /\ ProgressEvents[k].processed = k
          /\ ProgressEvents[k].success + ProgressEvents[k].failed = k
          /\ ProgressEvents[k].total = Len(retag.allSongs)
    /\ \A k \in 1..Len(retag.stream) :
          retag.stream[k].status = "complete" => k = Len(retag.stream)
    /\ (retag.ended /\ retag.pc = "done") =>
          LET last == retag.stream[Len(retag.stream)]
          IN /\ last.status = "complete"
             /\ last.processed = last.total
             /\ last.total = Len(retag.allSongs)
             /\ last.success + last.failed = last.processed
             /\ Len(ProgressEvents) = Len(retag.allSongs)

\* a library of three songs that fail in the three ways has been gone through
C30_Witness ==
    /\ retag.pc = "done"
    /\ retag.reasons = {"file", "nomatch", "exception"}
    /\ retag.stream[Len(retag.stream)].status = "complete"

=========================================================================
